---------------------------- MODULE Spec2Model ----------------------------
(***************************************************************************)
(* Rehab Buddy: the adaptive session engine of one user.                   *)
(*                                                                         *)
(*   item   the user's record in the DynamoDB table (progress store)       *)
(*   attrs  the Alexa session attributes of the open voice session         *)
(*   today  the calendar day (a day number) read by datetime.now()         *)
(*   call   the operation performed last, with its arguments               *)
(*   ret    what that operation returned                                   *)
(*   hist   call log of the running session (evaluations, completions)     *)
(*   steps  number of operations performed so far                          *)
(*                                                                         *)
(* Three specifications share these variables:                             *)
(*   Spec        the voice turns (intent handlers) on one user             *)
(*   SpecEngine  the engine and progress-store functions called directly   *)
(*   SpecEval    evaluate_session applied once to a drawn session summary  *)
(***************************************************************************)
EXTENDS Integers, Sequences, FiniteSets, TLC

VARIABLES item, attrs, today, call, ret, hist, steps

vars == <<item, attrs, today, call, ret, hist, steps>>

(***************************************************************************)
(* Bounds of the exploration.                                              *)
(***************************************************************************)
\* exercises per routine that are explored (the catalog's routines hold 5)
RoutineLen == 3
\* operations per behaviour of SpecEngine
MaxOps == 4
\* last calendar day NextDay reaches
MaxDay == 1
\* longest feedback list drawn for evaluate_session in SpecEval
MaxFb == 10
\* voice turns per behaviour of Spec
MaxTurns == 6
\* longest list of dates drawn for calculate_streak in SpecStreak
MaxDates == 4
\* last calendar day of the dates drawn in SpecStreak
LastDate == 4
\* calls of log_session_completion per behaviour of SpecProgress
MaxCompletions == 4
\* last calendar day the clock of SpecProgress reaches
LastDay == 8
\* logging calls per behaviour of SpecCaps
MaxLogs == 3
\* entries by which the lists of a record of SpecCaps may fall short of their caps
Headroom == 2
\* engine calls per behaviour of SpecOutage
MaxCalls == 3
\* repeat and feedback turns per behaviour of SpecLive
MaxAsides == 2

(***************************************************************************)
(* Program constants.                                                      *)
(***************************************************************************)
DIFFICULTY_LEVELS == <<"beginner", "intermediate", "advanced">>

FEEDBACK_COMFORTABLE == "comfortable"

FEEDBACK_CHALLENGING == "challenging"

FEEDBACK_TOO_HARD == "too-hard"

PROGRESS_TRACKING_ENABLED == TRUE

\* log_difficulty_change keeps the last 10 changes
MaxDifficultyChanges == 10
\* log_exercise_feedback keeps the last 50 feedback entries
MaxExerciseFeedback == 50
\* log_partial_session keeps the last 10 partial sessions
MaxPartialSessions == 10
\* should_check_difficulty_feedback: check_frequency
CheckFrequency == 2
\* evaluate_session: "comfortable" percentage that must be exceeded
ComfortablePercent == 70
\* evaluate_session: feedback entries needed for a step up
MinFeedbackForStepUp == 2
\* evaluate_session: consecutive skips that step down
MinConsecutiveSkips == 2

\* marks an attribute that a record does not hold
Absent == "absent"

LevelSet == {DIFFICULTY_LEVELS[i] : i \in 1..Len(DIFFICULTY_LEVELS)}

ExerciseTypes == {"physical", "speech", "cognitive"}

(***************************************************************************)
(* Small helpers for Python's list operations.                             *)
(***************************************************************************)
Max(a, b) == IF a >= b THEN a ELSE b

Min(a, b) == IF a <= b THEN a ELSE b

\* lst[-n:]
\* mutant of LastN: the oldest n entries are kept
FirstN(lst, n) ==
    IF Len(lst) <= n THEN lst ELSE SubSeq(lst, 1, n)

LastN(lst, n) ==
    IF Len(lst) <= n THEN lst ELSE SubSeq(lst, Len(lst) - n + 1, Len(lst))

\* sum(1 for x in lst if x == v)
RECURSIVE CountEq(_, _)
CountEq(lst, v) ==
    IF lst = <<>> THEN 0
    ELSE (IF Head(lst) = v THEN 1 ELSE 0) + CountEq(Tail(lst), v)

\* v in lst
InList(v, lst) == \E i \in 1..Len(lst) : lst[i] = v

\* DIFFICULTY_LEVELS.index(level), 0-based
LevelIndex(level) == (CHOOSE i \in 1..Len(DIFFICULTY_LEVELS) : DIFFICULTY_LEVELS[i] = level) - 1

\* DIFFICULTY_LEVELS[index], 0-based
LevelAt(index) == DIFFICULTY_LEVELS[index + 1]

(***************************************************************************)
(* Exercise catalog (exercise_library.py).  An exercise is represented by  *)
(* its id; the id of the n-th exercise of a routine is <<type, level, n>>. *)
(***************************************************************************)
AllExerciseIds ==
    {<<t, l, n>> : t \in ExerciseTypes, l \in LevelSet, n \in 1..RoutineLen}

get_exercise_routine(exercise_type, difficulty) ==
    LET t == IF exercise_type \in ExerciseTypes THEN exercise_type ELSE "physical"
        d == IF difficulty \in LevelSet THEN difficulty ELSE "beginner"
    IN  [n \in 1..RoutineLen |-> <<t, d, n>>]

(***************************************************************************)
(* The user's record in the table.  An attribute the record does not hold  *)
(* reads as the default that the code's item.get(..., default) supplies.   *)
(* An optional dict or date is a sequence: <<>> when it is not there, <<v>> *)
(* when it is.                                                             *)
(***************************************************************************)
EmptyItem ==
    [ difficulty_level   |-> Absent,
      difficulty_changes |-> <<>>,
      exercise_feedback  |-> <<>>,
      partial_sessions   |-> <<>>,
      session_progress   |-> <<>>,
      sessions_completed |-> 0,
      physical_sessions  |-> 0,
      speech_sessions    |-> 0,
      cognitive_sessions |-> 0,
      last_session_date  |-> <<>>,
      session_dates      |-> <<>>,
      current_streak     |-> 0,
      max_streak         |-> 0 ]

(***************************************************************************)
(* difficulty_engine.py                                                    *)
(***************************************************************************)
get_user_difficulty(it) ==
    IF it.difficulty_level \in LevelSet THEN it.difficulty_level ELSE "beginner"

\* the record after set_user_difficulty; an unknown level is rejected
set_user_difficulty(it, difficulty) ==
    IF difficulty \notin LevelSet THEN it
    ELSE [it EXCEPT !.difficulty_level = difficulty]

\* mutant of get_user_difficulty_call: the stored value is returned as read
get_user_difficulty_unvalidated(read) ==
    IF read = <<>> THEN "beginner"
    ELSE IF read[1].difficulty_level = Absent THEN "beginner"
    ELSE read[1].difficulty_level

\* get_user_difficulty with its try / except: read is what table.get_item
\* yields, <<>> when it raises and <<record>> otherwise (the record of a user
\* the table does not hold has no attributes)
get_user_difficulty_call(read) ==
    IF read = <<>> THEN "beginner" ELSE get_user_difficulty(read[1])

\* mutant of set_user_difficulty_call: the level is written without validation
set_user_difficulty_unvalidated(it, difficulty, write_ok) ==
    IF ~write_ok THEN [item |-> it, value |-> FALSE]
    ELSE [item |-> [it EXCEPT !.difficulty_level = difficulty], value |-> TRUE]

\* set_user_difficulty with its return value: [item |-> record afterwards,
\* value |-> returned flag]; write_ok says whether table.update_item succeeds
set_user_difficulty_call(it, difficulty, write_ok) ==
    IF difficulty \notin LevelSet THEN [item |-> it, value |-> FALSE]
    ELSE IF ~write_ok THEN [item |-> it, value |-> FALSE]
    ELSE [item |-> set_user_difficulty(it, difficulty), value |-> TRUE]

log_difficulty_change(it, old_difficulty, new_difficulty, user_requested) ==
    LET appended == Append(it.difficulty_changes,
                           [ old_difficulty |-> old_difficulty,
                             new_difficulty |-> new_difficulty,
                             user_requested |-> user_requested ])
    IN  [it EXCEPT !.difficulty_changes = LastN(appended, MaxDifficultyChanges)]

\* mutant of adjust_difficulty: a harder step is not capped at the last level
\* and wraps round to the first
adjust_difficulty_wrapping(it, make_easier) ==
    LET current_difficulty == get_user_difficulty(it)
        current_index == LevelIndex(current_difficulty)
        new_index == IF make_easier
                     THEN Max(0, current_index - 1)
                     ELSE (current_index + 1) % Len(DIFFICULTY_LEVELS)
        new_difficulty == LevelAt(new_index)
    IN  [ item  |-> IF new_difficulty # current_difficulty
                    THEN log_difficulty_change(
                             set_user_difficulty(it, new_difficulty),
                             current_difficulty, new_difficulty, TRUE)
                    ELSE it,
          value |-> new_difficulty ]

\* mutant of adjust_difficulty: the update and the log entry are not
\* conditional on the level having changed
adjust_difficulty_unconditional(it, make_easier) ==
    LET current_difficulty == get_user_difficulty(it)
        current_index == LevelIndex(current_difficulty)
        new_index == IF make_easier
                     THEN Max(0, current_index - 1)
                     ELSE Min(Len(DIFFICULTY_LEVELS) - 1, current_index + 1)
        new_difficulty == LevelAt(new_index)
    IN  [ item  |-> log_difficulty_change(
                        set_user_difficulty(it, new_difficulty),
                        current_difficulty, new_difficulty, TRUE),
          value |-> new_difficulty ]

\* [item |-> record afterwards, value |-> returned level]
adjust_difficulty(it, make_easier) ==
    LET current_difficulty == get_user_difficulty(it)
        current_index == LevelIndex(current_difficulty)
        new_index == IF make_easier
                     THEN Max(0, current_index - 1)
                     ELSE Min(Len(DIFFICULTY_LEVELS) - 1, current_index + 1)
        new_difficulty == LevelAt(new_index)
    IN  [ item  |-> IF new_difficulty # current_difficulty
                    THEN log_difficulty_change(
                             set_user_difficulty(it, new_difficulty),
                             current_difficulty, new_difficulty, TRUE)
                    ELSE it,
          value |-> new_difficulty ]

log_exercise_feedback(it, exercise_id, feedback_level) ==
    LET appended == Append(it.exercise_feedback,
                           [ exercise_id    |-> exercise_id,
                             feedback_level |-> feedback_level ])
    IN  [it EXCEPT !.exercise_feedback = LastN(appended, MaxExerciseFeedback)]

\* what a dict returned by the engine holds, as its callers read it with
\* result.get(key, default); a key the dict does not hold reads as Absent/FALSE
NoResult ==
    [ difficulty_changed |-> FALSE,
      make_easier        |-> FALSE,
      old_difficulty     |-> Absent,
      new_difficulty     |-> Absent,
      current_difficulty |-> Absent,
      congratulate       |-> FALSE,
      immediate_action   |-> FALSE,
      feedback_logged    |-> FALSE,
      error              |-> FALSE ]

\* truth value of a list entry in "if is_skipped:"; an exercise id is a
\* non-empty string, the only falsy entry would be an empty one
Truthy(entry) == entry # <<>>

\* the loop "for is_skipped in skips" of evaluate_session
RECURSIVE SkipLoop(_, _, _)
SkipLoop(skips, consecutive_skips, max_consecutive_skips) ==
    IF skips = <<>> THEN max_consecutive_skips
    ELSE IF Truthy(Head(skips))
         THEN SkipLoop(Tail(skips), consecutive_skips + 1,
                       Max(max_consecutive_skips, consecutive_skips + 1))
         ELSE SkipLoop(Tail(skips), 0, max_consecutive_skips)

\* mutant of ComfortableAboveThreshold: the threshold itself counts
ComfortableAtThreshold(comfortable_count, total_feedback) ==
    /\ total_feedback > 0
    /\ comfortable_count * 100 >= ComfortablePercent * total_feedback

\* comfortable_percentage > 70, with comfortable_percentage =
\* comfortable_count / total_feedback * 100 (0 when there is no feedback);
\* the float comparison agrees with the exact one for every list of fewer
\* than 30 entries
ComfortableAboveThreshold(comfortable_count, total_feedback) ==
    /\ total_feedback > 0
    /\ comfortable_count * 100 > ComfortablePercent * total_feedback

\* mutant of StepDownRule: a single too-hard entry is tolerated
StepDownRuleSecondTooHard(too_hard_count, max_consecutive_skips) ==
    too_hard_count > 1 \/ max_consecutive_skips >= MinConsecutiveSkips

\* the condition of "if too_hard_count > 0 or max_consecutive_skips >= 2"
StepDownRule(too_hard_count, max_consecutive_skips) ==
    too_hard_count > 0 \/ max_consecutive_skips >= MinConsecutiveSkips

\* the condition of "elif comfortable_percentage > 70 and total_feedback >= 2"
StepUpRule(comfortable_count, total_feedback) ==
    /\ ComfortableAboveThreshold(comfortable_count, total_feedback)
    /\ total_feedback >= MinFeedbackForStepUp

\* mutant of RuleThatFires: the step-up rule is tried first
RuleThatFiresUpFirst(too_hard_count, max_consecutive_skips, comfortable_count, total_feedback) ==
    IF StepUpRule(comfortable_count, total_feedback) THEN "step_up"
    ELSE IF StepDownRule(too_hard_count, max_consecutive_skips) THEN "step_down"
    ELSE "none"

\* the if / elif chain of "Apply adaptive algorithm": the branch entered
RuleThatFires(too_hard_count, max_consecutive_skips, comfortable_count, total_feedback) ==
    IF StepDownRule(too_hard_count, max_consecutive_skips) THEN "step_down"
    ELSE IF StepUpRule(comfortable_count, total_feedback) THEN "step_up"
    ELSE "none"

\* [item |-> record afterwards, result |-> returned dict]
evaluate_session(it, session_stats) ==
    LET feedback == session_stats.feedback
        skips == session_stats.skips
        total_feedback == Len(feedback)
        comfortable_count == CountEq(feedback, FEEDBACK_COMFORTABLE)
        too_hard_count == CountEq(feedback, FEEDBACK_TOO_HARD)
        max_consecutive_skips == SkipLoop(skips, 0, 0)
        rule == RuleThatFires(too_hard_count, max_consecutive_skips,
                              comfortable_count, total_feedback)
        current_difficulty == get_user_difficulty(it)
        current_index == LevelIndex(current_difficulty)
        no_change == [ item   |-> it,
                       result |-> [NoResult EXCEPT
                                     !.current_difficulty = current_difficulty] ]
    IN  IF rule = "step_down"
        THEN IF current_index > 0
             THEN LET new_difficulty == LevelAt(current_index - 1)
                  IN  [ item   |-> log_difficulty_change(
                                       set_user_difficulty(it, new_difficulty),
                                       current_difficulty, new_difficulty, FALSE),
                        result |-> [NoResult EXCEPT
                                      !.difficulty_changed = TRUE,
                                      !.make_easier = TRUE,
                                      !.old_difficulty = current_difficulty,
                                      !.new_difficulty = new_difficulty,
                                      !.congratulate = FALSE] ]
             ELSE no_change
        ELSE IF rule = "step_up"
        THEN IF current_index < Len(DIFFICULTY_LEVELS) - 1
             THEN LET new_difficulty == LevelAt(current_index + 1)
                  IN  [ item   |-> log_difficulty_change(
                                       set_user_difficulty(it, new_difficulty),
                                       current_difficulty, new_difficulty, FALSE),
                        result |-> [NoResult EXCEPT
                                      !.difficulty_changed = TRUE,
                                      !.make_easier = FALSE,
                                      !.old_difficulty = current_difficulty,
                                      !.new_difficulty = new_difficulty,
                                      !.congratulate = TRUE] ]
             ELSE no_change
        ELSE no_change

\* mutant of should_check_difficulty_feedback: the 0-based index is tested
should_check_difficulty_feedback_zero_based(exercise_index) ==
    exercise_index % CheckFrequency = 0

should_check_difficulty_feedback(exercise_index) ==
    (exercise_index + 1) % CheckFrequency = 0

\* mutant of process_difficulty_feedback: too-hard drops the user to the
\* first level
process_difficulty_feedback_to_floor(it, feedback_level, exercise_id) ==
    LET logged == log_exercise_feedback(it, exercise_id, feedback_level)
        current_difficulty == get_user_difficulty(logged)
        current_index == LevelIndex(current_difficulty)
    IN  IF feedback_level = FEEDBACK_TOO_HARD /\ current_index > 0
        THEN LET new_difficulty == LevelAt(0)
             IN  [ item   |-> log_difficulty_change(
                                  set_user_difficulty(logged, new_difficulty),
                                  current_difficulty, new_difficulty, FALSE),
                   result |-> [NoResult EXCEPT
                                 !.difficulty_changed = TRUE,
                                 !.make_easier = TRUE,
                                 !.old_difficulty = current_difficulty,
                                 !.new_difficulty = new_difficulty,
                                 !.immediate_action = TRUE] ]
        ELSE [ item   |-> logged,
               result |-> [NoResult EXCEPT !.feedback_logged = TRUE] ]

\* [item |-> record afterwards, result |-> returned dict]
process_difficulty_feedback(it, feedback_level, exercise_id) ==
    LET logged == log_exercise_feedback(it, exercise_id, feedback_level)
        current_difficulty == get_user_difficulty(logged)
        current_index == LevelIndex(current_difficulty)
    IN  IF feedback_level = FEEDBACK_TOO_HARD /\ current_index > 0
        THEN LET new_difficulty == LevelAt(current_index - 1)
             IN  [ item   |-> log_difficulty_change(
                                  set_user_difficulty(logged, new_difficulty),
                                  current_difficulty, new_difficulty, FALSE),
                   result |-> [NoResult EXCEPT
                                 !.difficulty_changed = TRUE,
                                 !.make_easier = TRUE,
                                 !.old_difficulty = current_difficulty,
                                 !.new_difficulty = new_difficulty,
                                 !.immediate_action = TRUE] ]
        ELSE [ item   |-> logged,
               result |-> [NoResult EXCEPT !.feedback_logged = TRUE] ]

\* days after which a saved snapshot is no longer resumed
ResumeWindowDays == 7

save_session_progress(it, session_data, now) ==
    [it EXCEPT !.session_progress = <<[session_data EXCEPT !.last_updated = now]>>]

\* mutant of clear_session_progress: the saved copy is left in the record
clear_session_progress_never(it) == it

\* REMOVE session_progress; without the attribute the conditional update
\* fails and nothing is written
clear_session_progress(it) ==
    [it EXCEPT !.session_progress = <<>>]

\* [item |-> record afterwards, value |-> <<snapshot>> or <<>> for None]
get_session_progress(it, now) ==
    IF it.session_progress = <<>>
    THEN [item |-> it, value |-> <<>>]
    ELSE IF now - it.session_progress[1].last_updated >= ResumeWindowDays
         THEN [item |-> clear_session_progress(it), value |-> <<>>]
         ELSE [item |-> it, value |-> it.session_progress]

(***************************************************************************)
(* deploy/progress_tracker.py.  A date is a day number; ISO date strings   *)
(* sort in the order of their days.                                        *)
(***************************************************************************)
\* sorted(session_dates, reverse=True)
RECURSIVE InsertDesc(_, _)
InsertDesc(d, sorted) ==
    IF sorted = <<>> THEN <<d>>
    ELSE IF d >= Head(sorted) THEN <<d>> \o sorted
         ELSE <<Head(sorted)>> \o InsertDesc(d, Tail(sorted))

RECURSIVE SortDesc(_)
SortDesc(dates) ==
    IF dates = <<>> THEN <<>>
    ELSE InsertDesc(Head(dates), SortDesc(Tail(dates)))

\* the loop "for i in range(1, len(sorted_dates))" of calculate_streak,
\* i is 0-based
RECURSIVE StreakLoop(_, _, _)
StreakLoop(sorted_dates, i, streak) ==
    IF i >= Len(sorted_dates) THEN streak
    ELSE LET gap == sorted_dates[i] - sorted_dates[i + 1]
         IN  IF gap = 1 THEN StreakLoop(sorted_dates, i + 1, streak + 1)
             ELSE IF gap = 0 THEN StreakLoop(sorted_dates, i + 1, streak)
             ELSE streak

\* mutant of calculate_streak: a streak that ended yesterday counts as broken
calculate_streak_today_only(session_dates, now) ==
    IF session_dates = <<>> THEN 0
    ELSE LET sorted_dates == SortDesc(session_dates)
         IN  IF sorted_dates[1] # now
             THEN 0
             ELSE StreakLoop(sorted_dates, 1, 1)

calculate_streak(session_dates, now) ==
    IF session_dates = <<>> THEN 0
    ELSE LET sorted_dates == SortDesc(session_dates)
         IN  IF sorted_dates[1] # now /\ sorted_dates[1] # now - 1
             THEN 0
             ELSE StreakLoop(sorted_dates, 1, 1)

\* mutant of log_session_completion: today's date is appended on every call
log_session_completion_appending(it, exercise_type, now) ==
    LET session_dates == Append(it.session_dates, now)
        current_streak == calculate_streak(session_dates, now)
    IN  [EmptyItem EXCEPT
           !.sessions_completed = it.sessions_completed + 1,
           !.last_session_date = <<now>>,
           !.session_dates = session_dates,
           !.current_streak = current_streak,
           !.max_streak = Max(current_streak, it.max_streak)]

\* the record after log_session_completion: put_item stores update_data as
\* the user's whole record
log_session_completion(it, exercise_type, now) ==
    IF ~PROGRESS_TRACKING_ENABLED THEN it
    ELSE LET session_dates == IF InList(now, it.session_dates)
                              THEN it.session_dates
                              ELSE Append(it.session_dates, now)
             current_streak == calculate_streak(session_dates, now)
         IN  [EmptyItem EXCEPT
                !.sessions_completed = it.sessions_completed + 1,
                !.physical_sessions = it.physical_sessions
                    + (IF exercise_type = "physical" THEN 1 ELSE 0),
                !.speech_sessions = it.speech_sessions
                    + (IF exercise_type = "speech" THEN 1 ELSE 0),
                !.cognitive_sessions = it.cognitive_sessions
                    + (IF exercise_type = "cognitive" THEN 1 ELSE 0),
                !.last_session_date = <<now>>,
                !.session_dates = session_dates,
                !.current_streak = current_streak,
                !.max_streak = Max(current_streak, it.max_streak)]

\* log_session_completion with the outcomes of its store calls.  read is
\* "ok", "ClientError" (get_item raised it: the function goes on with
\* item = {}) or "error" (the table could not be ensured, or get_item raised
\* something else: the outer handler returns False).  write_ok = FALSE is
\* put_item raising.  [item |-> record afterwards, value |-> bool returned]
log_session_completion_call(it, exercise_type, now, read, write_ok) ==
    IF ~PROGRESS_TRACKING_ENABLED THEN [item |-> it, value |-> TRUE]
    ELSE IF read = "error" \/ ~write_ok THEN [item |-> it, value |-> FALSE]
    ELSE [ item  |-> log_session_completion(IF read = "ok" THEN it ELSE EmptyItem,
                                            exercise_type, now),
           value |-> TRUE ]

\* <<record>>, or <<>> for None when the read fails; a user without a record
\* gets the defaults, which EmptyItem holds
get_user_progress(it, read_ok) ==
    IF ~PROGRESS_TRACKING_ENABLED THEN <<EmptyItem>>
    ELSE IF read_ok THEN <<it>> ELSE <<>>

\* sum(1 for date in session_dates if date >= week_start.isoformat())
CountSince(session_dates, week_start) ==
    LET InWeek(date) == date >= week_start
    IN  Len(SelectSeq(session_dates, InWeek))

\* days the week of get_weekly_summary reaches back from today
WeekBack == 6

get_weekly_summary(it, read_ok, now) ==
    LET progress == get_user_progress(it, read_ok)
    IN  IF progress = <<>>
        THEN [ sessions_this_week |-> 0, total_sessions |-> 0,
               current_streak |-> 0, max_streak |-> 0 ]
        ELSE [ sessions_this_week |-> CountSince(progress[1].session_dates,
                                                 now - WeekBack),
               total_sessions     |-> progress[1].sessions_completed,
               current_streak     |-> progress[1].current_streak,
               max_streak         |-> progress[1].max_streak ]

finish_session(it, exercise_type, completed, now) ==
    IF ~completed THEN it ELSE log_session_completion(it, exercise_type, now)

\* round((completed / total) * 100); Python rounds a half to the even number
RoundPercent(completed, total) ==
    LET q == (completed * 100) \div total
        r2 == 2 * ((completed * 100) % total)
    IN  IF r2 > total \/ (r2 = total /\ q % 2 = 1) THEN q + 1 ELSE q

\* with total = 0 the division raises and nothing is written
log_partial_session(it, completed, total, exercise_type, now) ==
    IF ~PROGRESS_TRACKING_ENABLED THEN it
    ELSE IF total = 0 THEN it
    ELSE LET appended == Append(it.partial_sessions,
                                [ date          |-> now,
                                  completed     |-> completed,
                                  total         |-> total,
                                  percentage    |-> RoundPercent(completed, total),
                                  exercise_type |-> exercise_type ])
         IN  [it EXCEPT !.partial_sessions = LastN(appended, MaxPartialSessions)]

\* log_partial_session with the outcomes of its store calls, as in
\* log_session_completion_call; update_item sets partial_sessions only
log_partial_session_call(it, completed, total, exercise_type, now, read, write_ok) ==
    IF ~PROGRESS_TRACKING_ENABLED THEN [item |-> it, value |-> TRUE]
    ELSE IF read = "error" \/ total = 0 \/ ~write_ok THEN [item |-> it, value |-> FALSE]
    ELSE [ item  |-> [it EXCEPT !.partial_sessions =
                        log_partial_session(IF read = "ok" THEN it ELSE EmptyItem,
                                            completed, total, exercise_type,
                                            now).partial_sessions],
           value |-> TRUE ]

(***************************************************************************)
(* deploy/session_flow.py: class SessionState.  List positions are 0-based *)
(* as in the code: position i of a list is element i + 1 of the sequence.  *)
(* Wall-clock stamps are left out; an entry of completion_times says only  *)
(* whether a time was measured (TRUE) or padded in (FALSE).                *)
(***************************************************************************)
\* while len(lst) <= index: lst.append(pad)
PadTo(lst, index, pad) ==
    lst \o [k \in 1..Max(0, index + 1 - Len(lst)) |-> pad]

\* SessionState.__init__
SessionInit(it, exercise_type) ==
    LET difficulty == get_user_difficulty(it)
    IN  [ exercise_type          |-> exercise_type,
          current_index          |-> 0,
          difficulty             |-> difficulty,
          exercises              |-> get_exercise_routine(exercise_type, difficulty),
          completed              |-> FALSE,
          skips                  |-> <<>>,
          repeats                |-> <<>>,
          completion_times       |-> <<>>,
          feedback               |-> <<>>,
          should_ask_feedback    |-> FALSE,
          pending_congratulation |-> FALSE ]

\* SessionState.to_dict
to_dict(s) ==
    [ exercise_type          |-> s.exercise_type,
      difficulty             |-> s.difficulty,
      current_index          |-> s.current_index,
      exercise_ids           |-> s.exercises,
      completed              |-> s.completed,
      skips                  |-> s.skips,
      repeats                |-> s.repeats,
      completion_times       |-> s.completion_times,
      feedback               |-> s.feedback,
      should_ask_feedback    |-> s.should_ask_feedback,
      pending_congratulation |-> s.pending_congratulation,
      inProgress             |-> ~s.completed ]

\* [get_exercise_by_id(ex_id) for ex_id in exercise_ids if get_exercise_by_id(ex_id)]
RECURSIVE KnownExercises(_)
KnownExercises(exercise_ids) ==
    IF exercise_ids = <<>> THEN <<>>
    ELSE (IF Head(exercise_ids) \in AllExerciseIds THEN <<Head(exercise_ids)>> ELSE <<>>)
         \o KnownExercises(Tail(exercise_ids))

\* SessionState.from_dict
from_dict(state_dict, it) ==
    [SessionInit(it, state_dict.exercise_type) EXCEPT
       !.current_index = state_dict.current_index,
       !.difficulty = state_dict.difficulty,
       !.exercises = KnownExercises(state_dict.exercise_ids),
       !.completed = state_dict.completed,
       !.skips = state_dict.skips,
       !.repeats = state_dict.repeats,
       !.completion_times = state_dict.completion_times,
       !.feedback = state_dict.feedback,
       !.should_ask_feedback = state_dict.should_ask_feedback,
       !.pending_congratulation = state_dict.pending_congratulation]

\* <<exercise>> or <<>> for None
get_current_exercise(s) ==
    IF s.exercises = <<>> \/ s.current_index >= Len(s.exercises) THEN <<>>
    ELSE <<s.exercises[s.current_index + 1]>>

\* mutant of advance: the index may move onto the position after the last
advance_past_end(s) ==
    LET timed == [s EXCEPT !.completion_times =
                     [PadTo(s.completion_times, s.current_index, FALSE)
                        EXCEPT ![s.current_index + 1] = TRUE]]
    IN  IF s.current_index < Len(s.exercises)
        THEN [ s     |-> [timed EXCEPT
                            !.current_index = s.current_index + 1,
                            !.should_ask_feedback =
                                should_check_difficulty_feedback(s.current_index + 1)],
               value |-> TRUE ]
        ELSE [ s |-> timed, value |-> FALSE ]

\* [s |-> session afterwards, value |-> returned flag]
advance(s) ==
    LET timed == [s EXCEPT !.completion_times =
                     [PadTo(s.completion_times, s.current_index, FALSE)
                        EXCEPT ![s.current_index + 1] = TRUE]]
    IN  IF s.current_index < Len(s.exercises) - 1
        THEN [ s     |-> [timed EXCEPT
                            !.current_index = s.current_index + 1,
                            !.should_ask_feedback =
                                should_check_difficulty_feedback(s.current_index + 1)],
               value |-> TRUE ]
        ELSE [ s |-> timed, value |-> FALSE ]

\* mutant of skip: a skip at the last exercise is noted like any other and
\* reported as done, the position stays
skip_unending(s) ==
    LET current_exercise == get_current_exercise(s)
        noted == IF current_exercise # <<>>
                 THEN [s EXCEPT !.skips = Append(s.skips, current_exercise[1])]
                 ELSE s
    IN  IF s.current_index < Len(s.exercises) - 1
        THEN [ s     |-> [noted EXCEPT
                            !.current_index = s.current_index + 1,
                            !.should_ask_feedback =
                                should_check_difficulty_feedback(s.current_index + 1)],
               value |-> TRUE ]
        ELSE [ s |-> noted, value |-> TRUE ]

\* [s |-> session afterwards, value |-> returned flag]
skip(s) ==
    LET current_exercise == get_current_exercise(s)
        noted == IF current_exercise # <<>>
                 THEN [s EXCEPT !.skips = Append(s.skips, current_exercise[1])]
                 ELSE s
    IN  IF s.current_index < Len(s.exercises) - 1
        THEN [ s     |-> [noted EXCEPT
                            !.current_index = s.current_index + 1,
                            !.should_ask_feedback =
                                should_check_difficulty_feedback(s.current_index + 1)],
               value |-> TRUE ]
        ELSE [ s |-> noted, value |-> FALSE ]

\* mutant of repeat: a new counter is appended instead of the current
\* position's counter being incremented
repeat_appending(s) ==
    [s EXCEPT !.repeats = Append(s.repeats, 1)]

repeat(s) ==
    LET padded == PadTo(s.repeats, s.current_index, 0)
    IN  [s EXCEPT !.repeats =
            [padded EXCEPT ![s.current_index + 1] = padded[s.current_index + 1] + 1]]

\* [s |-> session afterwards, item |-> record afterwards, result |-> returned dict]
record_feedback(s, it, feedback_level) ==
    LET noted == [s EXCEPT !.feedback =
                     [PadTo(s.feedback, s.current_index, "")
                        EXCEPT ![s.current_index + 1] = feedback_level]]
        current_exercise == get_current_exercise(noted)
    IN  IF current_exercise # <<>>
        THEN LET processed == process_difficulty_feedback(it, feedback_level,
                                                          current_exercise[1])
             IN  [s |-> noted, item |-> processed.item, result |-> processed.result]
        ELSE [s |-> noted, item |-> it, result |-> NoResult]

is_complete(s) == s.current_index >= Len(s.exercises) - 1

\* mutant of mark_completed: a too-hard rating, acted on when it was given,
\* is passed to the evaluation as challenging
mark_completed_forgiving(s, it) ==
    LET session_stats == [ feedback         |-> [i \in 1..Len(s.feedback) |->
                                                   IF s.feedback[i] = FEEDBACK_TOO_HARD
                                                   THEN FEEDBACK_CHALLENGING
                                                   ELSE s.feedback[i]],
                           skips            |-> s.skips,
                           repeats          |-> s.repeats,
                           completion_times |-> s.completion_times ]
        evaluated == evaluate_session(it, session_stats)
    IN  [ s          |-> [s EXCEPT
                            !.completed = TRUE,
                            !.pending_congratulation = evaluated.result.congratulate],
          item       |-> clear_session_progress(evaluated.item),
          evaluation |-> evaluated.result ]

\* [s |-> session afterwards, item |-> record afterwards, evaluation |-> dict]
mark_completed(s, it) ==
    LET session_stats == [ feedback         |-> s.feedback,
                           skips            |-> s.skips,
                           repeats          |-> s.repeats,
                           completion_times |-> s.completion_times ]
        evaluated == evaluate_session(it, session_stats)
    IN  [ s          |-> [s EXCEPT
                            !.completed = TRUE,
                            !.pending_congratulation = evaluated.result.congratulate],
          item       |-> clear_session_progress(evaluated.item),
          evaluation |-> evaluated.result ]

\* mutant of RemapIndex: the index is carried over as it is
RemapIndexUnscaled(current_index, old_len, new_len) ==
    current_index

\* int(current_position * len(exercises)) with current_position =
\* current_index / max(1, old_len); the float product truncates to the exact
\* quotient for all lists of up to 12 exercises
RemapIndex(current_index, old_len, new_len) ==
    (current_index * new_len) \div Max(1, old_len)

reload_exercises(s, it) ==
    LET difficulty == get_user_difficulty(it)
        exercises == get_exercise_routine(s.exercise_type, difficulty)
    IN  [s EXCEPT
           !.difficulty = difficulty,
           !.exercises = exercises,
           !.current_index = Min(Len(exercises) - 1,
                                 RemapIndex(s.current_index, Len(s.exercises),
                                            Len(exercises)))]

\* the record after SessionState.save_progress
save_progress(s, it, now) ==
    save_session_progress(it,
        [ inProgress      |-> ~s.completed,
          exerciseType    |-> s.exercise_type,
          currentIndex    |-> s.current_index,
          difficultyLevel |-> s.difficulty,
          exercise_ids    |-> s.exercises,
          skips           |-> s.skips,
          repeats         |-> s.repeats,
          feedback        |-> s.feedback,
          last_updated    |-> now ],
        now)

(***************************************************************************)
(* deploy/session_flow.py: the functions the intent handlers call.  Each   *)
(* yields an outcome:                                                      *)
(*   attrs, item   session attributes and user record afterwards           *)
(*   returns       "pair" for (response_text, should_end_session), "none"  *)
(*                 when the function falls off its end and returns None    *)
(*   should_end    the flag of the pair                                    *)
(*   marks         calls of mark_completed made                            *)
(*   evaluation    dict returned by the last evaluate_session, if any      *)
(***************************************************************************)
\* session attributes of a voice session that has just been opened
NewAttrs ==
    [ session_state            |-> <<>>,
      offering_resume          |-> FALSE,
      completed_session        |-> FALSE,
      total_sessions_completed |-> 0,
      exercise_counts          |-> [t \in ExerciseTypes |-> 0],
      current_difficulty       |-> Absent ]

Outcome(at, it, returns, should_end, marks, evaluation) ==
    [ attrs      |-> at,
      item       |-> it,
      returns    |-> returns,
      should_end |-> should_end,
      marks      |-> marks,
      evaluation |-> evaluation ]

\* <<SessionState>> or <<>> for None
get_session_state(at, it) ==
    IF at.session_state = <<>> THEN <<>>
    ELSE <<from_dict(at.session_state[1], it)>>

\* mutant of save_session_state: the resume copy is written for a completed
\* session too
save_session_state_always(at, it, s, now) ==
    [ attrs |-> [at EXCEPT !.session_state = <<to_dict(s)>>],
      item  |-> save_progress(s, it, now) ]

\* [attrs |-> attributes afterwards, item |-> record afterwards]
save_session_state(at, it, s, now) ==
    [ attrs |-> [at EXCEPT !.session_state = <<to_dict(s)>>],
      item  |-> IF ~s.completed THEN save_progress(s, it, now) ELSE it ]

update_session_completion_attributes(at, exercise_type) ==
    [at EXCEPT
       !.completed_session = TRUE,
       !.total_sessions_completed = at.total_sessions_completed + 1,
       !.exercise_counts[exercise_type] = at.exercise_counts[exercise_type] + 1]

\* a catalog whose routines hold n exercises each
CatalogOf(n) ==
    [t \in ExerciseTypes, d \in LevelSet |-> SubSeq(get_exercise_routine(t, d), 1, n)]

\* mutant of start_session_with: the exercise type is taken as it is given
start_session_unvalidated(at, it, exercise_type, now, catalog) ==
    LET session_state == SessionInit(it, exercise_type)
        saved == save_session_state(at, it, session_state, now)
    IN  Outcome(saved.attrs, saved.item, "pair",
                get_current_exercise(session_state) = <<>>, 0, NoResult)

\* start_session over a catalog: catalog[type, level] is the list that
\* get_exercise_routine returns to SessionState.__init__
start_session_with(at, it, exercise_type, now, catalog) ==
    LET valid_type == IF exercise_type \in ExerciseTypes
                      THEN exercise_type ELSE "physical"
        session_state == [SessionInit(it, valid_type) EXCEPT
                            !.exercises = catalog[valid_type, get_user_difficulty(it)]]
        saved == save_session_state(at, it, session_state, now)
    IN  Outcome(saved.attrs, saved.item, "pair",
                get_current_exercise(session_state) = <<>>, 0, NoResult)

start_session(at, it, exercise_type, now) ==
    start_session_with(at, it, exercise_type, now, CatalogOf(RoutineLen))

\* the branch "We're at the end of the session" shared by next_exercise and
\* skip_exercise: mark_completed, save_session_state, log_session_completion,
\* update_session_completion_attributes
CompleteSession(at, it, s, now) ==
    LET marked == mark_completed(s, it)
        saved == save_session_state(at, marked.item, marked.s, now)
    IN  [ attrs      |-> update_session_completion_attributes(
                             saved.attrs, marked.s.exercise_type),
          item       |-> log_session_completion(saved.item,
                                                marked.s.exercise_type, now),
          evaluation |-> marked.evaluation ]

\* next_exercise puts congratulation_text into its response: the flag was
\* pending and the branch that builds the response text is taken
next_exercise_congratulates(at, it) ==
    /\ get_session_state(at, it) # <<>>
    /\ get_session_state(at, it)[1].pending_congratulation
    /\ advance(get_session_state(at, it)[1]).value

next_exercise(at, it, now) ==
    IF get_session_state(at, it) = <<>>
    THEN Outcome(at, it, "pair", TRUE, 0, NoResult)
    ELSE LET session_state == [get_session_state(at, it)[1] EXCEPT
                                 !.pending_congratulation = FALSE]
             advanced == advance(session_state)
         IN  IF advanced.value
             THEN LET saved == save_session_state(at, it, advanced.s, now)
                  IN  Outcome(saved.attrs, saved.item, "pair", FALSE, 0, NoResult)
             ELSE LET done == CompleteSession(at, it, advanced.s, now)
                  IN  Outcome(done.attrs, done.item, "none", FALSE, 1,
                              done.evaluation)

repeat_exercise(at, it, now) ==
    IF get_session_state(at, it) = <<>>
    THEN Outcome(at, it, "pair", TRUE, 0, NoResult)
    ELSE LET session_state == get_session_state(at, it)[1]
         IN  IF get_current_exercise(session_state) = <<>>
             THEN Outcome(at, it, "pair", TRUE, 0, NoResult)
             ELSE LET saved == save_session_state(at, it, repeat(session_state), now)
                  IN  Outcome(saved.attrs, saved.item, "pair", FALSE, 0, NoResult)

skip_exercise(at, it, now) ==
    IF get_session_state(at, it) = <<>>
    THEN Outcome(at, it, "pair", TRUE, 0, NoResult)
    ELSE LET session_state == get_session_state(at, it)[1]
             skipped == skip(session_state)
         IN  IF get_current_exercise(session_state) = <<>>
             THEN Outcome(at, it, "pair", TRUE, 0, NoResult)
             ELSE IF skipped.value
             THEN LET saved == save_session_state(at, it, skipped.s, now)
                  IN  Outcome(saved.attrs, saved.item, "pair", FALSE, 0, NoResult)
             ELSE LET done == CompleteSession(at, it, skipped.s, now)
                  IN  Outcome(done.attrs, done.item, "pair", TRUE, 1,
                              done.evaluation)

\* mutant of end_session: a session ended early is logged as a partial
\* session without being marked completed and evaluated
end_session_unevaluated(at, it, now) ==
    IF get_session_state(at, it) = <<>>
    THEN Outcome(at, it, "pair", TRUE, 0, NoResult)
    ELSE LET session_state == get_session_state(at, it)[1]
         IN  IF ~session_state.completed
             THEN LET saved == save_session_state(at, it, session_state, now)
                  IN  Outcome(saved.attrs,
                              log_partial_session(saved.item,
                                                  session_state.current_index + 1,
                                                  Len(session_state.exercises),
                                                  session_state.exercise_type, now),
                              "pair", TRUE, 0, NoResult)
             ELSE Outcome(at, it, "pair", TRUE, 0, NoResult)

end_session(at, it, now) ==
    IF get_session_state(at, it) = <<>>
    THEN Outcome(at, it, "pair", TRUE, 0, NoResult)
    ELSE LET session_state == get_session_state(at, it)[1]
         IN  IF ~session_state.completed
             THEN LET marked == mark_completed(session_state, it)
                      saved == save_session_state(at, marked.item, marked.s, now)
                  IN  Outcome(saved.attrs,
                              log_partial_session(saved.item,
                                                  marked.s.current_index + 1,
                                                  Len(marked.s.exercises),
                                                  marked.s.exercise_type, now),
                              "pair", TRUE, 1, marked.evaluation)
             ELSE Outcome(at, it, "pair", TRUE, 0, NoResult)

\* mutant of resume_session: the saved index is read as a one-based position
resume_session_one_based(at, it, now) ==
    LET progress == get_session_progress(it, now)
    IN  IF progress.value = <<>>
        THEN Outcome(at, progress.item, "pair", FALSE, 0, NoResult)
        ELSE LET session_progress == progress.value[1]
                 session_state ==
                     [SessionInit(progress.item, session_progress.exerciseType) EXCEPT
                        !.difficulty = session_progress.difficultyLevel,
                        !.current_index = session_progress.currentIndex + 1,
                        !.skips = session_progress.skips,
                        !.repeats = session_progress.repeats,
                        !.feedback = session_progress.feedback]
                 saved == save_session_state(at, progress.item, session_state, now)
             IN  Outcome(saved.attrs, saved.item, "pair", FALSE, 0, NoResult)

\* both branches return should_end_session = False
resume_session(at, it, now) ==
    LET progress == get_session_progress(it, now)
    IN  IF progress.value = <<>>
        THEN Outcome(at, progress.item, "pair", FALSE, 0, NoResult)
        ELSE LET session_progress == progress.value[1]
                 session_state ==
                     [SessionInit(progress.item, session_progress.exerciseType) EXCEPT
                        !.difficulty = session_progress.difficultyLevel,
                        !.current_index = session_progress.currentIndex,
                        !.skips = session_progress.skips,
                        !.repeats = session_progress.repeats,
                        !.feedback = session_progress.feedback]
                 saved == save_session_state(at, progress.item, session_state, now)
             IN  Outcome(saved.attrs, saved.item, "pair", FALSE, 0, NoResult)

(***************************************************************************)
(* State of the model.                                                     *)
(***************************************************************************)
NoCall ==
    [ op             |-> "none",
      make_easier    |-> FALSE,
      feedback_level |-> "",
      exercise_id    |-> <<>>,
      exercise_type  |-> "",
      feedback       |-> <<>>,
      skips          |-> <<>>,
      skipped        |-> {},
      before         |-> "beginner",
      difficulty     |-> "",
      store_ok       |-> TRUE,
      index_before   |-> 0,
      length_before  |-> 0,
      session_dates  |-> <<>>,
      read           |-> "ok",
      started        |-> FALSE ]

NoRet ==
    [ value      |-> Absent,
      result     |-> NoResult,
      returns    |-> "pair",
      should_end |-> FALSE,
      success    |-> FALSE,
      streak     |-> 0,
      sessions_this_week |-> 0,
      progress   |-> <<>>,
      congratulated |-> FALSE ]

NoHist == [marks |-> 0, evals |-> 0, evaluation |-> NoResult]

Init ==
    /\ item = EmptyItem
    /\ attrs = NewAttrs
    /\ today = 0
    /\ call = NoCall
    /\ ret = NoRet
    /\ hist = NoHist
    /\ steps = 0

(***************************************************************************)
(* lambda_function.py: the intent handlers, one action per voice turn.     *)
(***************************************************************************)
\* values of the exerciseType slot that are tried
TypeSlotValues == {"physical", "speech", "end", "yoga"}

\* values of the level slot that are tried
FeedbackSlotValues == {"comfortable", "challenging", "too hard"}

\* "Normalize the feedback level" of DifficultyFeedbackIntentHandler
NormalizeFeedback(slot_value) ==
    CASE slot_value = "comfortable" -> "comfortable"
      [] slot_value = "too hard"    -> "too-hard"
      [] slot_value = "too-hard"    -> "too-hard"
      [] OTHER                      -> slot_value

\* session attributes after the response: a response that ends the voice
\* session drops them; a function that returned None makes the handler raise,
\* CatchAllExceptionHandler reprompts and the voice session stays open
AfterResponse(o) ==
    IF o.returns = "pair" /\ o.should_end THEN NewAttrs ELSE o.attrs

\* the state after a turn that ran a session_flow function with outcome o;
\* started: the turn started a new session; congratulated: the response
\* text carries get_congratulatory_message()
TurnSaying(op, o, started, congratulated) ==
    /\ steps' = steps + 1
    /\ today' = today
    /\ item' = o.item
    /\ attrs' = AfterResponse(o)
    /\ call' = [NoCall EXCEPT !.op = op, !.before = get_user_difficulty(item),
                              !.started = started]
    /\ ret' = [NoRet EXCEPT !.returns = o.returns, !.should_end = o.should_end,
                            !.congratulated = congratulated]
    /\ hist' = LET base == IF started THEN NoHist ELSE hist
               IN  [ marks      |-> base.marks + o.marks,
                     evals      |-> base.evals + o.marks,
                     evaluation |-> IF o.marks > 0 THEN o.evaluation
                                    ELSE base.evaluation ]

\* a turn whose response text is built without congratulation_text
Turn(op, o, started) == TurnSaying(op, o, started, FALSE)

\* EndSessionIntentHandler.handle
EndSessionHandle(at, it, now) ==
    LET ended == end_session(at, it, now)
        exercise_type == IF ended.attrs.session_state = <<>> THEN "physical"
                         ELSE ended.attrs.session_state[1].exercise_type
    IN  Outcome([ended.attrs EXCEPT !.session_state = <<>>],
                finish_session(ended.item, exercise_type, TRUE, now),
                "pair", TRUE, ended.marks, ended.evaluation)

StartSessionIntent(slot_value) ==
    /\ steps < MaxTurns
    /\ IF slot_value \in ExerciseTypes
       THEN Turn("StartSessionIntent", start_session(attrs, item, slot_value, today), TRUE)
       ELSE IF slot_value \in {"end", "stop", "cancel", "quit", "finish"}
       THEN Turn("StartSessionIntent", EndSessionHandle(attrs, item, today), FALSE)
       ELSE Turn("StartSessionIntent",
                 Outcome(attrs, item, "pair", FALSE, 0, NoResult), FALSE)

NextExerciseIntent ==
    /\ steps < MaxTurns
    /\ TurnSaying("NextExerciseIntent", next_exercise(attrs, item, today), FALSE,
                  next_exercise_congratulates(attrs, item))

RepeatExerciseIntent ==
    /\ steps < MaxTurns
    /\ Turn("RepeatExerciseIntent", repeat_exercise(attrs, item, today), FALSE)

SkipExerciseIntent ==
    /\ steps < MaxTurns
    /\ Turn("SkipExerciseIntent", skip_exercise(attrs, item, today), FALSE)

AdjustDifficultyIntent(make_easier) ==
    /\ steps < MaxTurns
    /\ LET adjusted == adjust_difficulty(item, make_easier)
           noted == [attrs EXCEPT
                       !.current_difficulty = adjusted.value,
                       !.session_state =
                           IF attrs.session_state = <<>> THEN <<>>
                           ELSE <<[attrs.session_state[1] EXCEPT
                                     !.difficulty = adjusted.value]>>]
           session_state == get_session_state(noted, adjusted.item)
           saved == IF session_state = <<>>
                    THEN [attrs |-> noted, item |-> adjusted.item]
                    ELSE save_session_state(noted, adjusted.item,
                             reload_exercises(session_state[1], adjusted.item), today)
       IN  Turn("AdjustDifficultyIntent",
                Outcome(saved.attrs, saved.item, "pair", FALSE, 0, NoResult), FALSE)

DifficultyFeedbackIntent(slot_value) ==
    /\ steps < MaxTurns
    /\ LET feedback_level == NormalizeFeedback(slot_value)
           session_state == get_session_state(attrs, item)
       IN  IF session_state = <<>>
           THEN Turn("DifficultyFeedbackIntent",
                     Outcome(attrs, item, "pair", FALSE, 0, NoResult), FALSE)
           ELSE LET recorded == record_feedback(session_state[1], item, feedback_level)
                    saved == save_session_state(attrs, recorded.item, recorded.s, today)
                IN  Turn("DifficultyFeedbackIntent",
                         Outcome(saved.attrs, saved.item, "pair", FALSE, 0, NoResult),
                         FALSE)

EndSessionIntent ==
    /\ steps < MaxTurns
    /\ Turn("EndSessionIntent", EndSessionHandle(attrs, item, today), FALSE)

CancelOrStopIntent ==
    /\ steps < MaxTurns
    /\ LET session_state == get_session_state(attrs, item)
       IN  IF session_state # <<>> /\ ~session_state[1].completed
           THEN LET was_complete == is_complete(session_state[1])
                    ended == end_session(attrs, item, today)
                IN  Turn("CancelOrStopIntent",
                         Outcome(ended.attrs,
                                 finish_session(ended.item,
                                                session_state[1].exercise_type,
                                                was_complete, today),
                                 "pair", TRUE, ended.marks, ended.evaluation),
                         FALSE)
           ELSE Turn("CancelOrStopIntent",
                     Outcome(attrs, item, "pair", TRUE, 0, NoResult), FALSE)

\* LaunchRequestHandler: the first request of a voice session opened without
\* an intent; the session attributes are still empty
LaunchRequest ==
    /\ steps < MaxTurns
    /\ attrs = NewAttrs
    /\ LET progress == get_session_progress(item, today)
           offering == progress.value # <<>> /\ progress.value[1].inProgress
       IN  Turn("LaunchRequest",
                Outcome([attrs EXCEPT !.offering_resume = offering],
                        progress.item, "pair", FALSE, 0, NoResult),
                FALSE)

\* YesIntentHandler
YesIntent ==
    /\ steps < MaxTurns
    /\ IF attrs.offering_resume
       THEN Turn("YesIntent",
                 resume_session([attrs EXCEPT !.offering_resume = FALSE], item, today),
                 FALSE)
       ELSE Turn("YesIntent", start_session(attrs, item, "physical", today), TRUE)

\* NoIntentHandler
NoIntent ==
    /\ steps < MaxTurns
    /\ IF attrs.offering_resume
       THEN Turn("NoIntent",
                 Outcome([attrs EXCEPT !.offering_resume = FALSE],
                         clear_session_progress(item), "pair", FALSE, 0, NoResult),
                 FALSE)
       ELSE Turn("NoIntent", Outcome(attrs, item, "pair", TRUE, 0, NoResult), FALSE)

\* SessionEndedRequestHandler: the voice session was closed by the user or
\* timed out; its attributes are gone afterwards
SessionEndedRequest ==
    /\ steps < MaxTurns
    /\ LET session_state == get_session_state(attrs, item)
       IN  IF session_state # <<>> /\ ~session_state[1].completed
           THEN Turn("SessionEndedRequest",
                     Outcome(attrs,
                             log_partial_session(
                                 save_progress(session_state[1], item, today),
                                 session_state[1].current_index + 1,
                                 Len(session_state[1].exercises),
                                 session_state[1].exercise_type, today),
                             "pair", TRUE, 0, NoResult),
                     FALSE)
           ELSE Turn("SessionEndedRequest",
                     Outcome(attrs, item, "pair", TRUE, 0, NoResult), FALSE)

Next ==
    \/ LaunchRequest
    \/ YesIntent
    \/ NoIntent
    \/ SessionEndedRequest
    \/ \E slot_value \in TypeSlotValues : StartSessionIntent(slot_value)
    \/ NextExerciseIntent
    \/ RepeatExerciseIntent
    \/ SkipExerciseIntent
    \/ \E make_easier \in BOOLEAN : AdjustDifficultyIntent(make_easier)
    \/ \E slot_value \in FeedbackSlotValues : DifficultyFeedbackIntent(slot_value)
    \/ EndSessionIntent
    \/ CancelOrStopIntent

Spec == Init /\ [][Next]_vars

(***************************************************************************)
(* SpecEngine: the functions of difficulty_engine.py and                   *)
(* progress_tracker.py called one after the other on the user's record.    *)
(***************************************************************************)
\* feedback levels passed to process_difficulty_feedback
EngineFeedbackLevels == {"comfortable", "challenging", "too-hard", "easy"}

\* exercise ids passed to process_difficulty_feedback
EngineExerciseIds == {<<"physical", "beginner", 1>>, <<"speech", "advanced", 2>>}

\* feedback lists of the summaries passed to evaluate_session
EngineFeedbackLists ==
    { <<>>, <<"too-hard">>, <<"comfortable">>, <<"comfortable", "comfortable">>,
      <<"comfortable", "challenging">>, <<"comfortable", "", "comfortable">> }

\* skip lists of the summaries passed to evaluate_session
EngineSkipLists ==
    { <<>>, <<<<"physical", "beginner", 1>>, <<"physical", "beginner", 2>>>> }

\* exercise types passed to log_session_completion
EngineTypes == {"physical", "speech", "cognitive"}

EngineStep(c, r, it) ==
    /\ steps' = steps + 1
    /\ item' = it
    /\ call' = [c EXCEPT !.before = get_user_difficulty(item)]
    /\ ret' = r
    /\ UNCHANGED <<attrs, today, hist>>

AdjustDifficultyCall(make_easier) ==
    /\ steps < MaxOps
    /\ LET adjusted == adjust_difficulty(item, make_easier)
       IN  EngineStep([NoCall EXCEPT !.op = "adjust_difficulty",
                                     !.make_easier = make_easier],
                      [NoRet EXCEPT !.value = adjusted.value],
                      adjusted.item)

ProcessDifficultyFeedbackCall(feedback_level, exercise_id) ==
    /\ steps < MaxOps
    /\ LET processed == process_difficulty_feedback(item, feedback_level, exercise_id)
       IN  EngineStep([NoCall EXCEPT !.op = "process_difficulty_feedback",
                                     !.feedback_level = feedback_level,
                                     !.exercise_id = exercise_id],
                      [NoRet EXCEPT !.result = processed.result],
                      processed.item)

EvaluateSessionCall(feedback, skips) ==
    /\ steps < MaxOps
    /\ LET evaluated == evaluate_session(item,
                            [ feedback |-> feedback, skips |-> skips,
                              repeats |-> <<>>, completion_times |-> <<>> ])
       IN  EngineStep([NoCall EXCEPT !.op = "evaluate_session",
                                     !.feedback = feedback,
                                     !.skips = skips],
                      [NoRet EXCEPT !.result = evaluated.result],
                      evaluated.item)

LogSessionCompletionCall(exercise_type) ==
    /\ steps < MaxOps
    /\ EngineStep([NoCall EXCEPT !.op = "log_session_completion",
                                 !.exercise_type = exercise_type],
                  NoRet,
                  log_session_completion(item, exercise_type, today))

\* midnight passes
NextDay ==
    /\ today < MaxDay
    /\ today' = today + 1
    /\ UNCHANGED <<item, attrs, call, ret, hist, steps>>

NextEngine ==
    \/ \E make_easier \in BOOLEAN : AdjustDifficultyCall(make_easier)
    \/ \E feedback_level \in EngineFeedbackLevels, exercise_id \in EngineExerciseIds :
          ProcessDifficultyFeedbackCall(feedback_level, exercise_id)
    \/ \E feedback \in EngineFeedbackLists, skips \in EngineSkipLists :
          EvaluateSessionCall(feedback, skips)
    \/ \E exercise_type \in EngineTypes : LogSessionCompletionCall(exercise_type)
    \/ NextDay

SpecEngine == Init /\ [][NextEngine]_vars

(***************************************************************************)
(* SpecEval: evaluate_session applied once to a summary drawn at the       *)
(* start, for a user at any of the three levels.                           *)
(***************************************************************************)
\* the record of a user who asked for harder exercises k times
RECURSIVE ItemAtLevel(_)
ItemAtLevel(k) ==
    IF k = 0 THEN EmptyItem ELSE adjust_difficulty(ItemAtLevel(k - 1), FALSE).item

\* a feedback list of a comfortable, b challenging, c unrated, d too-hard
FeedbackBlock(a, b, c, d) ==
    [i \in 1..a |-> "comfortable"] \o [i \in 1..b |-> "challenging"]
        \o [i \in 1..c |-> ""] \o [i \in 1..d |-> "too-hard"]

FeedbackTags == {"comfortable", "challenging", "", "too-hard"}

\* every feedback list of up to 3 entries, and the block lists up to MaxFb
FeedbackInputs ==
    UNION { [1..n -> FeedbackTags] : n \in 0..3 }
    \cup { FeedbackBlock(a, b, c, d) :
             <<a, b, c, d>> \in { q \in (0..MaxFb) \X (0..MaxFb) \X (0..MaxFb) \X (0..MaxFb) :
                                    q[1] + q[2] + q[3] + q[4] <= MaxFb } }

\* the session of a beginner after the positions in skipped were skipped and
\* the others performed, position by position to the end of the routine
RECURSIVE PlaySession(_, _, _)
PlaySession(s, position, skipped) ==
    IF position >= Len(s.exercises) THEN s
    ELSE PlaySession(IF position \in skipped THEN skip(s).s ELSE advance(s).s,
                     position + 1, skipped)

InitEval ==
    /\ \E k \in 0..(Len(DIFFICULTY_LEVELS) - 1) : item = ItemAtLevel(k)
    /\ attrs = NewAttrs
    /\ today = 0
    /\ \E feedback \in FeedbackInputs, skipped \in SUBSET (0..(RoutineLen - 1)) :
          call = [NoCall EXCEPT
                    !.op = "summary",
                    !.feedback = feedback,
                    !.skipped = skipped,
                    !.skips = PlaySession(SessionInit(EmptyItem, "physical"),
                                          0, skipped).skips]
    /\ ret = NoRet
    /\ hist = NoHist
    /\ steps = 0

EvaluateSessionApply ==
    /\ call.op = "summary"
    /\ LET evaluated == evaluate_session(item,
                            [ feedback |-> call.feedback, skips |-> call.skips,
                              repeats |-> <<>>, completion_times |-> <<>> ])
       IN  /\ item' = evaluated.item
           /\ ret' = [NoRet EXCEPT !.result = evaluated.result]
    /\ call' = [call EXCEPT !.op = "evaluate_session",
                            !.before = get_user_difficulty(item)]
    /\ steps' = steps + 1
    /\ UNCHANGED <<attrs, today, hist>>

NextEval == EvaluateSessionApply

SpecEval == InitEval /\ [][NextEval]_vars

(***************************************************************************)
(* SpecSession: the methods of one SessionState object called one after    *)
(* the other.  Between two calls the object is kept as its to_dict form,   *)
(* as it is between two voice turns.  SpecAdvance calls advance() only.    *)
(***************************************************************************)
\* the exercise ids a session of n exercises is built from: the routine of the
\* user's level followed by the routine of the next level
SessionIds(exercise_type, difficulty) ==
    get_exercise_routine(exercise_type, difficulty)
        \o get_exercise_routine(exercise_type,
               LevelAt((LevelIndex(difficulty) + 1) % Len(DIFFICULTY_LEVELS)))

\* a session that has just been constructed, over n exercises
FreshSession(it, exercise_type, n) ==
    [SessionInit(it, exercise_type) EXCEPT
       !.exercises = SubSeq(SessionIds(exercise_type, get_user_difficulty(it)), 1, n)]

InitSession ==
    /\ \E k \in 0..(Len(DIFFICULTY_LEVELS) - 1) : item = ItemAtLevel(k)
    /\ \E exercise_type \in ExerciseTypes, n \in 1..(RoutineLen + 1) :
          attrs = [NewAttrs EXCEPT
                     !.session_state = <<to_dict(FreshSession(item, exercise_type, n))>>]
    /\ today = 0
    /\ call = [NoCall EXCEPT !.op = "__init__"]
    /\ ret = NoRet
    /\ hist = NoHist
    /\ steps = 0

\* the SessionState object the next method is called on
TheSession == from_dict(attrs.session_state[1], item)

\* the state after a method call that left session s, record it and returned value
SessionStep(op, s, it, value) ==
    /\ steps' = steps + 1
    /\ attrs' = [attrs EXCEPT !.session_state = <<to_dict(s)>>]
    /\ item' = it
    /\ call' = [NoCall EXCEPT !.op = op,
                              !.before = get_user_difficulty(item),
                              !.index_before = TheSession.current_index,
                              !.length_before = Len(TheSession.exercises)]
    /\ ret' = [NoRet EXCEPT !.success = value]
    /\ UNCHANGED <<today, hist>>

AdvanceCall ==
    /\ steps < MaxOps
    /\ LET advanced == advance(TheSession)
       IN  SessionStep("advance", advanced.s, item, advanced.value)

SkipCall ==
    /\ steps < MaxOps
    /\ LET skipped == skip(TheSession)
       IN  SessionStep("skip", skipped.s, item, skipped.value)

RepeatCall ==
    /\ steps < MaxOps
    /\ SessionStep("repeat", repeat(TheSession), item, FALSE)

RecordFeedbackCall(feedback_level) ==
    /\ steps < MaxOps
    /\ LET recorded == record_feedback(TheSession, item, feedback_level)
       IN  SessionStep("record_feedback", recorded.s, recorded.item,
                       recorded.result.difficulty_changed)

ReloadExercisesCall ==
    /\ steps < MaxOps
    /\ SessionStep("reload_exercises", reload_exercises(TheSession, item), item, FALSE)

NextSession ==
    \/ AdvanceCall
    \/ SkipCall
    \/ RepeatCall
    \/ \E feedback_level \in {"comfortable", "challenging", "too-hard"} :
          RecordFeedbackCall(feedback_level)
    \/ ReloadExercisesCall
    \/ \E make_easier \in BOOLEAN : AdjustDifficultyCall(make_easier)

SpecSession == InitSession /\ [][NextSession]_vars

NextAdvance == AdvanceCall

SpecAdvance == InitSession /\ [][NextAdvance]_vars

(***************************************************************************)
(* SpecStore: get_user_difficulty and set_user_difficulty called on a      *)
(* record whose difficulty_level attribute holds any value, with store     *)
(* calls that may raise.                                                   *)
(***************************************************************************)
\* values the difficulty_level attribute of the record read may hold
StoredLevelValues == LevelSet \cup {Absent, "expert", "Beginner", ""}

\* levels passed to set_user_difficulty
LevelArguments == LevelSet \cup {"expert", "Beginner", "easy", ""}

InitStore ==
    /\ \E stored \in StoredLevelValues :
          item = [EmptyItem EXCEPT !.difficulty_level = stored]
    /\ attrs = NewAttrs
    /\ today = 0
    /\ call = NoCall
    /\ ret = NoRet
    /\ hist = NoHist
    /\ steps = 0

GetUserDifficultyCall(read_ok) ==
    /\ steps < MaxOps
    /\ EngineStep([NoCall EXCEPT !.op = "get_user_difficulty",
                                 !.store_ok = read_ok],
                  [NoRet EXCEPT !.value =
                      get_user_difficulty_call(IF read_ok THEN <<item>> ELSE <<>>)],
                  item)

SetUserDifficultyCall(difficulty, write_ok) ==
    /\ steps < MaxOps
    /\ LET written == set_user_difficulty_call(item, difficulty, write_ok)
       IN  EngineStep([NoCall EXCEPT !.op = "set_user_difficulty",
                                     !.difficulty = difficulty,
                                     !.store_ok = write_ok],
                      [NoRet EXCEPT !.success = written.value],
                      written.item)

NextStore ==
    \/ \E read_ok \in BOOLEAN : GetUserDifficultyCall(read_ok)
    \/ \E difficulty \in LevelArguments, write_ok \in BOOLEAN :
          SetUserDifficultyCall(difficulty, write_ok)

SpecStore == InitStore /\ [][NextStore]_vars

(***************************************************************************)
(* Properties.                                                             *)
(***************************************************************************)
\* positions between two levels of DIFFICULTY_LEVELS
LevelDistance(a, b) ==
    IF LevelIndex(a) >= LevelIndex(b) THEN LevelIndex(a) - LevelIndex(b)
    ELSE LevelIndex(b) - LevelIndex(a)

\* the level one step easier / harder, staying at the ends
OneEasier(level) == IF level = "advanced" THEN "intermediate" ELSE "beginner"

OneHarder(level) == IF level = "beginner" THEN "intermediate" ELSE "advanced"

\* C1 (as claimed): no single engine operation moves the level observed
\* through get_user_difficulty by more than one position of
\* beginner < intermediate < advanced.
C1_OneLevelPerOperation ==
    [][LevelDistance(get_user_difficulty(item), get_user_difficulty(item')) <= 1]_vars

\* C2 (as claimed): log_session_completion leaves the stored difficulty level,
\* the difficulty-change history, the partial-session history and the
\* per-exercise feedback history as they were, so the level observed
\* afterwards is the level reached before.
C2_CompletionKeepsDifficulty ==
    [][(call'.op = "log_session_completion" /\ steps' = steps + 1) =>
          /\ item'.difficulty_level = item.difficulty_level
          /\ item'.difficulty_changes = item.difficulty_changes
          /\ item'.partial_sessions = item.partial_sessions
          /\ item'.exercise_feedback = item.exercise_feedback
          /\ get_user_difficulty(item') = get_user_difficulty(item)]_vars

\* C3 (as claimed): in any sequence of turns on one session the session is
\* marked completed at most once and evaluate_session is invoked at most once
\* for it.
C3_EvaluatedOnce == hist.marks <= 1 /\ hist.evals <= 1

\* C4 (as claimed): once the session has completed = true, a next, skip,
\* repeat or feedback turn on it changes neither its current_index, skips,
\* repeats or feedback nor the user's stored difficulty level.
C4_CompletedIsTerminal ==
    [][(/\ attrs.session_state # <<>>
        /\ attrs.session_state[1].completed
        /\ steps' = steps + 1
        /\ call'.op \in {"NextExerciseIntent", "SkipExerciseIntent",
                         "RepeatExerciseIntent", "DifficultyFeedbackIntent"}) =>
          /\ item'.difficulty_level = item.difficulty_level
          /\ attrs'.session_state # <<>> =>
                /\ attrs'.session_state[1].current_index
                       = attrs.session_state[1].current_index
                /\ attrs'.session_state[1].skips = attrs.session_state[1].skips
                /\ attrs'.session_state[1].repeats = attrs.session_state[1].repeats
                /\ attrs'.session_state[1].feedback
                       = attrs.session_state[1].feedback]_vars

\* an evaluate_session call happens in this step
Evaluates == call.op = "summary" /\ call'.op = "evaluate_session"

\* C5: when the summary's feedback holds a too-hard entry, evaluate_session
\* leaves the user one level easier (at beginner: where they were), returns
\* congratulate = false, and a change it makes is logged with
\* user_requested = false.
C5_TooHardStepsDown ==
    [][(Evaluates /\ InList(FEEDBACK_TOO_HARD, call.feedback)) =>
          /\ get_user_difficulty(item') = OneEasier(get_user_difficulty(item))
          /\ ret'.result.congratulate = FALSE
          /\ IF get_user_difficulty(item) = "beginner"
             THEN /\ item' = item
                  /\ ret'.result.difficulty_changed = FALSE
             ELSE /\ item'.difficulty_changes =
                        Append(item.difficulty_changes,
                               [ old_difficulty |-> get_user_difficulty(item),
                                 new_difficulty |-> OneEasier(get_user_difficulty(item)),
                                 user_requested |-> FALSE ])
                  /\ ret'.result.difficulty_changed
                  /\ ret'.result.new_difficulty = get_user_difficulty(item')]_vars

\* C5 witness: feedback [too-hard], no skips, at intermediate: beginner.
C5_Witness ==
    /\ call.op = "evaluate_session"
    /\ call.feedback = <<FEEDBACK_TOO_HARD>>
    /\ call.skips = <<>>
    /\ call.before = "intermediate"
    /\ get_user_difficulty(item) = "beginner"
    /\ ret.result.congratulate = FALSE

\* two positions next to each other were both skipped
AdjacentSkips(skipped) == \E position \in skipped : position + 1 \in skipped

\* C6 (as claimed): skips step the level down only when two or more
\* consecutive positions were skipped: a session whose skipped positions are
\* never adjacent and that has no too-hard feedback is not stepped down; one
\* with two adjacent skipped positions is stepped down whatever its feedback.
C6_OnlyConsecutiveSkipsStepDown ==
    call.op = "evaluate_session" =>
        /\ AdjacentSkips(call.skipped) =>
               get_user_difficulty(item) = OneEasier(call.before)
        /\ (~AdjacentSkips(call.skipped)
                /\ ~InList(FEEDBACK_TOO_HARD, call.feedback)) =>
               LevelIndex(get_user_difficulty(item)) >= LevelIndex(call.before)

\* the step-down rule of evaluate_session fires on this summary: a too-hard
\* entry, or a run of skips as the function counts it
StepDownFires(feedback, skips) ==
    \/ InList(FEEDBACK_TOO_HARD, feedback)
    \/ SkipLoop(skips, 0, 0) >= MinConsecutiveSkips

\* C7: when the step-down rule does not fire, evaluate_session leaves the user
\* one level harder (at advanced: where they were) if and only if the summary
\* holds at least two feedback entries and comfortable_count * 100 >
\* 70 * total; otherwise the level stays.
C7_StepUpAboveSeventyPercent ==
    (call.op = "evaluate_session" /\ ~StepDownFires(call.feedback, call.skips)) =>
        LET total == Len(call.feedback)
            comfortable == Cardinality({i \in 1..total :
                                          call.feedback[i] = FEEDBACK_COMFORTABLE})
        IN  IF total >= 2 /\ comfortable * 100 > 70 * total
            THEN /\ get_user_difficulty(item) = OneHarder(call.before)
                 /\ ret.result.congratulate = (call.before # "advanced")
            ELSE /\ get_user_difficulty(item) = call.before
                 /\ ~ret.result.difficulty_changed

\* C7 witness: 3 comfortable of 4 entries at beginner: intermediate.
C7_Witness ==
    /\ call.op = "evaluate_session"
    /\ call.feedback = <<"comfortable", "comfortable", "comfortable", "challenging">>
    /\ call.skips = <<>>
    /\ call.before = "beginner"
    /\ get_user_difficulty(item) = "intermediate"

\* C8: whenever the summary holds a too-hard entry or two adjacent skipped
\* positions, or the function's own step-down condition holds, the evaluation
\* does not raise the level and does not congratulate, also at beginner with
\* more than 70% comfortable feedback.
C8_StepDownExcludesStepUp ==
    (/\ call.op = "evaluate_session"
     /\ \/ InList(FEEDBACK_TOO_HARD, call.feedback)
        \/ AdjacentSkips(call.skipped)
        \/ StepDownFires(call.feedback, call.skips)) =>
        /\ LevelIndex(get_user_difficulty(item)) <= LevelIndex(call.before)
        /\ ~ret.result.congratulate
        /\ ~(ret.result.difficulty_changed /\ ~ret.result.make_easier)

\* C8 witness: at beginner, 4 comfortable of 5 entries and one too-hard: the
\* level stays at beginner.
C8_Witness ==
    /\ call.op = "evaluate_session"
    /\ call.feedback = <<"comfortable", "comfortable", "comfortable",
                         "comfortable", "too-hard">>
    /\ call.before = "beginner"
    /\ get_user_difficulty(item) = "beginner"

\* a process_difficulty_feedback call happens in this step
ProcessesFeedback == call'.op = "process_difficulty_feedback" /\ steps' = steps + 1

\* the user's feedback log after one more event was logged
FeedbackLogged ==
    item'.exercise_feedback =
        LastN(Append(item.exercise_feedback,
                     [ exercise_id    |-> call'.exercise_id,
                       feedback_level |-> call'.feedback_level ]),
              MaxExerciseFeedback)

\* C9 (as claimed): for too-hard the level moves exactly one step easier and a
\* change with the immediate flag is reported; for any other value the stored
\* level is unchanged; in both cases the event is appended to the feedback log.
C9_AsClaimed ==
    [][ProcessesFeedback =>
          /\ FeedbackLogged
          /\ IF call'.feedback_level = FEEDBACK_TOO_HARD
             THEN /\ LevelIndex(get_user_difficulty(item'))
                        = LevelIndex(get_user_difficulty(item)) - 1
                  /\ ret'.result.difficulty_changed
                  /\ ret'.result.immediate_action
             ELSE item'.difficulty_level = item.difficulty_level]_vars

\* C9 (amended): for too-hard at a level above beginner the level moves
\* exactly one step easier and a change with the immediate flag is reported;
\* for too-hard at beginner and for any other value the stored level is
\* unchanged and no change is reported; in every case the event is appended
\* to the feedback log.
C9_ImmediateFeedback ==
    [][ProcessesFeedback =>
          /\ FeedbackLogged
          /\ IF /\ call'.feedback_level = FEEDBACK_TOO_HARD
                /\ get_user_difficulty(item) # "beginner"
             THEN /\ LevelIndex(get_user_difficulty(item'))
                        = LevelIndex(get_user_difficulty(item)) - 1
                  /\ ret'.result.difficulty_changed
                  /\ ret'.result.immediate_action
                  /\ ret'.result.new_difficulty = get_user_difficulty(item')
             ELSE /\ item'.difficulty_level = item.difficulty_level
                  /\ ~ret'.result.difficulty_changed
                  /\ ~ret'.result.immediate_action]_vars

\* C9 witness: too-hard at advanced was processed: intermediate, reported as
\* an immediate change, and the event is the last of the feedback log.
C9_Witness ==
    /\ call.op = "process_difficulty_feedback"
    /\ call.feedback_level = FEEDBACK_TOO_HARD
    /\ call.before = "advanced"
    /\ get_user_difficulty(item) = "intermediate"
    /\ ret.result.immediate_action
    /\ item.exercise_feedback[Len(item.exercise_feedback)].feedback_level
           = FEEDBACK_TOO_HARD

\* C10: adjust_difficulty returns one of the three levels, the one whose
\* position is the position before plus or minus one kept within 0..2, and
\* that level is the user's level afterwards; an easier step at beginner
\* yields beginner and a harder step at advanced yields advanced.
C10_StepIsClamped ==
    call.op = "adjust_difficulty" =>
        LET sum == LevelIndex(call.before) + (IF call.make_easier THEN -1 ELSE 1)
            clamped == IF sum < 0 THEN 0 ELSE IF sum > 2 THEN 2 ELSE sum
        IN  /\ ret.value \in {"beginner", "intermediate", "advanced"}
            /\ LevelIndex(ret.value) = clamped
            /\ get_user_difficulty(item) = ret.value
            /\ (call.make_easier /\ call.before = "beginner") => ret.value = "beginner"
            /\ (~call.make_easier /\ call.before = "advanced") => ret.value = "advanced"

\* C10 witness: a harder step taken at advanced returned advanced.
C10_Witness ==
    /\ call.op = "adjust_difficulty"
    /\ ~call.make_easier
    /\ call.before = "advanced"
    /\ ret.value = "advanced"
    /\ Len(item.difficulty_changes) = 2

\* an adjust_difficulty call happens in this step
Adjusts == call'.op = "adjust_difficulty" /\ steps' = steps + 1

\* C11: adjust_difficulty at a boundary (easier at beginner, harder at
\* advanced) leaves the whole record, stored level and difficulty-change
\* history included, as it was and returns the current level; away from the
\* boundary it stores the returned level and appends exactly one entry, marked
\* user-requested, to the history (which keeps its most recent 10).
C11_LogsOnlyRealChanges ==
    [][Adjusts =>
          LET before == get_user_difficulty(item)
              boundary == \/ call'.make_easier /\ before = "beginner"
                          \/ ~call'.make_easier /\ before = "advanced"
          IN  IF boundary
              THEN /\ item' = item
                   /\ ret'.value = before
              ELSE /\ ret'.value # before
                   /\ item'.difficulty_level = ret'.value
                   /\ item'.difficulty_changes =
                          LastN(Append(item.difficulty_changes,
                                       [ old_difficulty |-> before,
                                         new_difficulty |-> ret'.value,
                                         user_requested |-> TRUE ]),
                                MaxDifficultyChanges)]_vars

\* C11 witness: an easier step was taken at beginner by a user whose history
\* holds the two changes that brought them to intermediate and back; the
\* history still holds those two.
C11_Witness ==
    /\ call.op = "adjust_difficulty"
    /\ call.make_easier
    /\ call.before = "beginner"
    /\ ret.value = "beginner"
    /\ Len(item.difficulty_changes) = 2
    /\ item.difficulty_level = "beginner"

\* C12: get_user_difficulty returns one of the three levels: the stored
\* level when the read succeeds and the stored value is one of the three,
\* and beginner when the attribute is missing, holds anything else, or the
\* read raises.
C12_AlwaysAKnownLevel ==
    call.op = "get_user_difficulty" =>
        /\ ret.value \in {"beginner", "intermediate", "advanced"}
        /\ ret.value =
              IF /\ call.store_ok
                 /\ item.difficulty_level \in {"beginner", "intermediate", "advanced"}
              THEN item.difficulty_level
              ELSE "beginner"

\* C12 witness: a record whose stored value is no known level was read
\* successfully and beginner was returned.
C12_Witness ==
    /\ call.op = "get_user_difficulty"
    /\ call.store_ok
    /\ item.difficulty_level = "expert"
    /\ ret.value = "beginner"

\* a set_user_difficulty call happens in this step
Sets == call'.op = "set_user_difficulty" /\ steps' = steps + 1

\* C13: set_user_difficulty with a level outside the three returns failure
\* and leaves the record as it was; with a known level and a write that
\* succeeds it stores that level, changes nothing else and returns success
\* (a write that raises stores nothing and returns failure).
C13_RejectsUnknownLevels ==
    [][Sets =>
          IF call'.difficulty \notin {"beginner", "intermediate", "advanced"}
          THEN /\ ~ret'.success
               /\ item' = item
          ELSE IF call'.store_ok
          THEN /\ ret'.success
               /\ item' = [item EXCEPT !.difficulty_level = call'.difficulty]
          ELSE /\ ~ret'.success
               /\ item' = item]_vars

\* C13 witness: "expert" was refused for a user stored at advanced.
C13_Witness ==
    /\ call.op = "set_user_difficulty"
    /\ call.difficulty = "expert"
    /\ call.store_ok
    /\ ~ret.success
    /\ item.difficulty_level = "advanced"

\* C14: in a run of advance() calls on a fresh session of n exercises, after
\* k calls the index is min(k, n - 1) and lies in 0..n-1, and the k-th call
\* returned true exactly when k <= n - 1.
C14_AdvanceStopsAtLast ==
    LET n == Len(attrs.session_state[1].exercise_ids)
        k == steps
        index == attrs.session_state[1].current_index
    IN  /\ n >= 1
        /\ index = (IF k < n - 1 THEN k ELSE n - 1)
        /\ index \in 0..(n - 1)
        /\ k > 0 => (call.op = "advance" /\ ret.success = (k <= n - 1))

\* C14 witness: on a session of 3 exercises the fourth advance() returned
\* false with the index at 2.
C14_Witness ==
    /\ Len(attrs.session_state[1].exercise_ids) = 3
    /\ steps = 4
    /\ call.op = "advance"
    /\ ~ret.success
    /\ attrs.session_state[1].current_index = 2

\* the session before and after a step, in its to_dict form
Before == attrs.session_state[1]

After == attrs'.session_state[1]

\* sequence a is an initial part of sequence b
IsPrefix(a, b) == Len(a) <= Len(b) /\ SubSeq(b, 1, Len(a)) = a

\* a skip() call happens in this step
Skips == call'.op = "skip" /\ steps' = steps + 1

\* C16 (as claimed): skip() leaves the session as advance() would leave it
\* after the current exercise's id was appended to skips, and returns what
\* advance() would return: at a non-final position the id is appended, the
\* index moves by one and true is returned; at the final position false is
\* returned and the index stays; and no operation removes or reorders
\* entries of skips.
C16_SkipIsAdvanceAfterAppend ==
    [][/\ IsPrefix(Before.skips, After.skips)
       /\ Skips =>
             LET s == TheSession
                 id == s.exercises[s.current_index + 1]
                 like == advance([s EXCEPT !.skips = Append(s.skips, id)])
                 final == Before.current_index = Len(Before.exercise_ids) - 1
             IN  /\ After.skips = Append(Before.skips, id)
                 /\ After.current_index =
                        Before.current_index + (IF final THEN 0 ELSE 1)
                 /\ ret'.success = ~final
                 /\ After = to_dict(like.s)
                 /\ ret'.success = like.value]_vars

\* the repeat counter of a position; a position the list does not reach has
\* not been repeated
RepeatCount(repeats, position) ==
    IF position < Len(repeats) THEN repeats[position + 1] ELSE 0

\* a repeat() call happens in this step
Repeats == call'.op = "repeat" /\ steps' = steps + 1

\* C17: repeat() raises the repeat counter of the current position by exactly
\* one and leaves the counter of every other position, current_index, skips,
\* feedback, completed, the exercise list and the user's record unchanged.
C17_RepeatCountsOnePosition ==
    [][Repeats =>
          /\ \A position \in 0..(2 * RoutineLen) :
                RepeatCount(After.repeats, position) =
                    RepeatCount(Before.repeats, position)
                        + (IF position = Before.current_index THEN 1 ELSE 0)
          /\ After.current_index = Before.current_index
          /\ After.skips = Before.skips
          /\ After.feedback = Before.feedback
          /\ After.completed = Before.completed
          /\ After.exercise_ids = Before.exercise_ids
          /\ item' = item]_vars

\* C17 witness: the exercise at position 1 was repeated twice; position 0
\* was not.
C17_Witness ==
    /\ call.op = "repeat"
    /\ attrs.session_state[1].current_index = 1
    /\ attrs.session_state[1].repeats = <<0, 2>>

\* a reload_exercises() call happens in this step
Reloads == call'.op = "reload_exercises" /\ steps' = steps + 1

Moves ==
    /\ call'.op \in {"advance", "skip"}
    /\ steps' = steps + 1
    /\ ret'.success

\* C20: after every advance() or skip() that returned true, should_ask_feedback
\* is true exactly when the new 0-based index is odd, i.e. when
\* (current_index + 1) mod 2 = 0.
C20_AsksAfterEverySecond ==
    [][Moves =>
          /\ After.current_index = Before.current_index + 1
          /\ After.should_ask_feedback = ((After.current_index + 1) % 2 = 0)
          /\ After.should_ask_feedback = (After.current_index \in {1, 3, 5, 7, 9})]_vars

\* C20 witness: a skip moved the session to index 2 and no feedback is asked
\* for, after an earlier move had asked for it at index 1.
C20_Witness ==
    /\ call.op = "skip"
    /\ ret.success
    /\ attrs.session_state[1].current_index = 2
    /\ ~attrs.session_state[1].should_ask_feedback

(***************************************************************************)
(* Properties of the session position and of completion across voice       *)
(* turns, checked under Spec.                                              *)
(***************************************************************************)
\* the session held in the session attributes is present and not completed
LiveSession ==
    /\ attrs.session_state # <<>>
    /\ ~attrs.session_state[1].completed

\* the session held in the session attributes is present and completed
CompletedSession ==
    /\ attrs.session_state # <<>>
    /\ attrs.session_state[1].completed

\* get_session_progress reports a saved session for the user
Resumable == get_session_progress(item, today).value # <<>>

\* C15: while the session is not completed its position is an index of its
\* exercise list, 0 <= current_index < len(exercise_ids), after every turn:
\* start, next, skip, repeat, feedback, a difficulty change that reloads the
\* list, and a resume from the saved copy.
C15_IndexInRange ==
    LiveSession =>
        LET session_state == get_session_state(attrs, item)[1]
        IN  /\ 0 <= session_state.current_index
            /\ session_state.current_index < Len(session_state.exercises)

\* a session resumed from the saved copy at its last exercise
C15_Witness ==
    /\ call.op = "YesIntent"
    /\ LiveSession
    /\ attrs.session_state[1].current_index
           = Len(attrs.session_state[1].exercise_ids) - 1
    /\ attrs.session_state[1].current_index > 0

\* the turn starts a new session
StartsSession ==
    \/ call'.op = "StartSessionIntent"
    \/ call'.op = "YesIntent" /\ ~attrs.offering_resume

\* C18: a completed session never becomes uncompleted again, a completed
\* session has no saved copy that get_session_progress would report, and once
\* no session is under way and nothing is resumable, only the start of a new
\* session makes something resumable again.
C18_CompletedForGood ==
    [][ /\ (CompletedSession /\ attrs'.session_state # <<>> /\ ~StartsSession)
             => CompletedSession'
        /\ CompletedSession' => ~Resumable'
        /\ (~LiveSession /\ ~Resumable /\ ~StartsSession) => ~Resumable'
      ]_vars

\* a session that had a saved copy has just been completed, the voice session
\* is still open, and nothing is resumable
C18_Witness ==
    /\ CompletedSession
    /\ hist.marks = 1
    /\ call.op \in {"NextExerciseIntent", "SkipExerciseIntent"}
    /\ ~Resumable
    /\ item.session_progress = <<>>

(***************************************************************************)
(* SpecStreak: calculate_streak applied once to a list of dates.  The      *)
(* lists drawn hold up to MaxDates days of 0..LastDate in any order, with  *)
(* repetitions, and the evaluation day is any day of 0..LastDate + 1.      *)
(***************************************************************************)
DateLists == UNION { [1..n -> 0..LastDate] : n \in 0..MaxDates }

InitStreak ==
    /\ item = EmptyItem
    /\ attrs = NewAttrs
    /\ today \in 0..(LastDate + 1)
    /\ \E session_dates \in DateLists :
          call = [NoCall EXCEPT !.op = "dates", !.session_dates = session_dates]
    /\ ret = NoRet
    /\ hist = NoHist
    /\ steps = 0

CalculateStreakApply ==
    /\ call.op = "dates"
    /\ call' = [call EXCEPT !.op = "calculate_streak"]
    /\ ret' = [NoRet EXCEPT !.streak = calculate_streak(call.session_dates, today)]
    /\ steps' = steps + 1
    /\ UNCHANGED <<item, attrs, today, hist>>

NextStreak == CalculateStreakApply

SpecStreak == InitStreak /\ [][NextStreak]_vars

(***************************************************************************)
(* Properties of calculate_streak, checked under SpecStreak.               *)
(***************************************************************************)
\* the days of a list of dates
DaySet(session_dates) == { session_dates[i] : i \in 1..Len(session_dates) }

\* the most recent day of a non-empty set of days
MostRecent(days) == CHOOSE d \in days : \A e \in days : e <= d

\* the length of the longest run of consecutive days in days that ends at last
RunEndingAt(days, last) ==
    CHOOSE k \in 1..Cardinality(days) :
        /\ \A j \in 0..(k - 1) : (last - j) \in days
        /\ (last - k) \notin days

\* C21: calculate_streak returns 0 for an empty list of dates or when the
\* most recent date is neither today nor yesterday; otherwise it returns the
\* length of the longest run of consecutive calendar days that ends at the
\* most recent date, whatever the order of the list and however often a date
\* is repeated in it.
C21_StreakIsRunEndingAtMostRecent ==
    call.op = "calculate_streak" =>
        LET days == DaySet(call.session_dates)
        IN  ret.streak =
                IF days = {} THEN 0
                ELSE IF MostRecent(days) \notin {today, today - 1} THEN 0
                ELSE RunEndingAt(days, MostRecent(days))

\* today, yesterday and the day before, one of them listed twice, give 3
C21_Witness ==
    /\ call.op = "calculate_streak"
    /\ DaySet(call.session_dates) = {today, today - 1, today - 2}
    /\ Len(call.session_dates) = 4
    /\ ret.streak = 3

(***************************************************************************)
(* SpecProgress: progress_tracker.py called directly over several days.    *)
(* Sessions are completed on any day, the store calls of                   *)
(* log_session_completion and get_user_progress succeed or fail, and the   *)
(* clock moves forward by any number of days.                              *)
(***************************************************************************)
ReadOutcomes == {"ok", "ClientError", "error"}

LogSessionCompletionRun(exercise_type, read, write_ok) ==
    /\ steps < MaxCompletions
    /\ LET logged == log_session_completion_call(item, exercise_type, today,
                                                 read, write_ok)
       IN  /\ item' = logged.item
           /\ ret' = [NoRet EXCEPT !.success = logged.value]
    /\ call' = [NoCall EXCEPT !.op = "log_session_completion",
                              !.exercise_type = exercise_type,
                              !.read = read,
                              !.store_ok = write_ok]
    /\ steps' = steps + 1
    /\ UNCHANGED <<attrs, today, hist>>

GetWeeklySummaryCall(read_ok) ==
    /\ call.op # "get_weekly_summary"
    /\ call' = [NoCall EXCEPT !.op = "get_weekly_summary",
                              !.read = IF read_ok THEN "ok" ELSE "ClientError"]
    /\ ret' = [NoRet EXCEPT
                 !.sessions_this_week =
                     get_weekly_summary(item, read_ok, today).sessions_this_week]
    /\ UNCHANGED <<item, attrs, today, hist, steps>>

\* one or more midnights pass
DaysPass ==
    /\ today < LastDay
    /\ \E later \in (today + 1)..LastDay : today' = later
    /\ call' = NoCall
    /\ ret' = NoRet
    /\ UNCHANGED <<item, attrs, hist, steps>>

NextProgress ==
    \/ \E exercise_type \in EngineTypes, read \in ReadOutcomes, write_ok \in BOOLEAN :
          LogSessionCompletionRun(exercise_type, read, write_ok)
    \/ \E read_ok \in BOOLEAN : GetWeeklySummaryCall(read_ok)
    \/ DaysPass

SpecProgress == Init /\ [][NextProgress]_vars


(***************************************************************************)
(* Properties of the progress record, checked under SpecProgress.          *)
(***************************************************************************)
\* the step is a call of log_session_completion
Completes == call'.op = "log_session_completion"

\* C22: the stored max_streak never decreases over any sequence of session
\* completions, and after each completion that was logged max_streak is at
\* least current_streak.
C22_MaxStreakNeverFalls ==
    [][ /\ item'.max_streak >= item.max_streak
        /\ (Completes /\ ret'.success) => item'.max_streak >= item'.current_streak
      ]_vars

\* no date occurs twice in the list
NoRepeatedDate(session_dates) ==
    Cardinality(DaySet(session_dates)) = Len(session_dates)

\* the stored completion days of the seven days that end today
DaysThisWeek ==
    { d \in DaySet(item.session_dates) : today - WeekBack <= d /\ d <= today }

\* C23: the stored list of completion dates never holds the same calendar
\* day twice, however many sessions are completed on one day, so the
\* sessions_this_week of a weekly summary that read the record is the number
\* of distinct completion days among the seven days ending today, and it is
\* at most 7.
C23_OneDatePerDay ==
    /\ NoRepeatedDate(item.session_dates)
    /\ (call.op = "get_weekly_summary" /\ call.read = "ok") =>
          /\ ret.sessions_this_week = Cardinality(DaysThisWeek)
          /\ ret.sessions_this_week <= 7

\* a summary after four sessions on three days, one of them before the week
C23_Witness ==
    /\ call.op = "get_weekly_summary"
    /\ call.read = "ok"
    /\ item.sessions_completed = 4
    /\ Len(item.session_dates) = 3
    /\ ret.sessions_this_week = 2

\* C26: the progress update of a session completion never commits in part:
\* when the read of the user's record fails the stored record stays exactly
\* as it was, and a call either writes the counts, dates and streaks derived
\* from the prior record or writes nothing.
C26_NoPartialCommit ==
    [][ Completes =>
          /\ call'.read # "ok" => item' = item
          /\ \/ item' = item
             \/ item' = log_session_completion(item, call'.exercise_type, today)
      ]_vars


(***************************************************************************)
(* SpecResume: get_session_progress called on the days after a session was *)
(* left unfinished.  The saved copy is the one save_progress wrote on day  *)
(* 0 for a session of any type, at any level and position.                 *)
(***************************************************************************)
\* the session after k calls of advance
RECURSIVE Advanced(_, _)
Advanced(s, k) == IF k = 0 THEN s ELSE Advanced(advance(s).s, k - 1)

InitResume ==
    /\ \E k \in 0..(Len(DIFFICULTY_LEVELS) - 1), exercise_type \in ExerciseTypes,
          position \in 0..(RoutineLen - 1) :
          item = save_progress(
                     Advanced(SessionInit(ItemAtLevel(k), exercise_type), position),
                     ItemAtLevel(k), 0)
    /\ attrs = NewAttrs
    /\ today = 0
    /\ call = NoCall
    /\ ret = NoRet
    /\ hist = NoHist
    /\ steps = 0

GetSessionProgressCall ==
    /\ steps < MaxOps
    /\ LET progress == get_session_progress(item, today)
       IN  /\ item' = progress.item
           /\ ret' = [NoRet EXCEPT !.progress = progress.value]
    /\ call' = [NoCall EXCEPT !.op = "get_session_progress"]
    /\ steps' = steps + 1
    /\ UNCHANGED <<attrs, today, hist>>

NextResume ==
    \/ GetSessionProgressCall
    \/ DaysPass

SpecResume == InitResume /\ [][NextResume]_vars

(***************************************************************************)
(* Properties of the saved copy of a session.                              *)
(***************************************************************************)
\* C24: get_session_progress reports a saved copy as absent, and discards
\* it, exactly when it is older than 7 days from its last_updated time to
\* now; a copy that is not older than 7 days, one aged exactly 7 days
\* included, is returned unchanged and stays in the store.
C24_ExpiresAfterSevenDays ==
    [][ (call'.op = "get_session_progress" /\ item.session_progress # <<>>) =>
          IF today - item.session_progress[1].last_updated > ResumeWindowDays
          THEN /\ ret'.progress = <<>>
               /\ item'.session_progress = <<>>
          ELSE /\ ret'.progress = item.session_progress
               /\ item'.session_progress = item.session_progress
      ]_vars

\* C25: resume_session rebuilds the session with the current_index,
\* difficulty, skips, repeats and feedback of the saved copy and with the
\* saved exercise ids as its exercise list, without fetching the difficulty
\* or the exercises afresh: the resumed list is the saved list even when the
\* user's stored difficulty changed after the copy was saved, and its
\* exercises are of the session's difficulty.
C25_ResumeRestoresSavedList ==
    [][ (call'.op = "YesIntent" /\ attrs.offering_resume /\ Resumable) =>
          LET session_progress == get_session_progress(item, today).value[1]
              session_state == get_session_state(attrs', item')[1]
          IN  /\ session_state.current_index = session_progress.currentIndex
              /\ session_state.difficulty = session_progress.difficultyLevel
              /\ session_state.skips = session_progress.skips
              /\ session_state.repeats = session_progress.repeats
              /\ session_state.feedback = session_progress.feedback
              /\ session_state.exercises = session_progress.exercise_ids
              /\ \A i \in 1..Len(session_state.exercises) :
                    session_state.exercises[i][2] = session_state.difficulty
      ]_vars


\* C27: every session operation returns an outcome, a response text with
\* the end-session flag, in every state; next_exercise called at the final
\* position, where it marks the session completed, returns such a pair like
\* every other branch.
C27_AlwaysAnOutcome == ret.returns = "pair"


(***************************************************************************)
(* SpecCaps: the three capped lists of the user's record.  The record at   *)
(* the start is the one a user has after rating exercises, changing the    *)
(* level and leaving sessions unfinished so often that each list is at its *)
(* cap or up to Headroom entries short of it; then the logging functions   *)
(* are called in any order.                                                *)
(***************************************************************************)
CapsLevels == <<"comfortable", "challenging", "too-hard">>

\* the record after n calls of log_exercise_feedback, n up to the cap: no
\* entry has been dropped yet
WithFeedback(it, n) ==
    [it EXCEPT !.exercise_feedback =
        [i \in 1..n |-> [ exercise_id    |-> <<"physical", "beginner", (i % RoutineLen) + 1>>,
                          feedback_level |-> CapsLevels[(i % 3) + 1] ]]]

\* the record after n calls of adjust_difficulty by a new user, harder and
\* easier in turn, n up to the cap
WithChanges(it, n) ==
    [it EXCEPT
       !.difficulty_level = IF n = 0 THEN it.difficulty_level
                            ELSE IF n % 2 = 1 THEN "intermediate" ELSE "beginner",
       !.difficulty_changes =
           [i \in 1..n |->
               [ old_difficulty |-> IF i % 2 = 1 THEN "beginner" ELSE "intermediate",
                 new_difficulty |-> IF i % 2 = 1 THEN "intermediate" ELSE "beginner",
                 user_requested |-> TRUE ]]]

\* the record after n calls of log_partial_session on day 0, n up to the cap
WithPartials(it, n) ==
    [it EXCEPT !.partial_sessions =
        [i \in 1..n |->
            [ date          |-> 0,
              completed     |-> (i % RoutineLen) + 1,
              total         |-> RoutineLen,
              percentage    |-> RoundPercent((i % RoutineLen) + 1, RoutineLen),
              exercise_type |-> "physical" ]]]

UserRecord(short) ==
    WithPartials(
        WithChanges(
            WithFeedback(EmptyItem, MaxExerciseFeedback - short),
            MaxDifficultyChanges - short),
        MaxPartialSessions - short)

InitCaps ==
    /\ \E short \in 0..Headroom : item = UserRecord(short)
    /\ attrs = NewAttrs
    /\ today = 0
    /\ call = NoCall
    /\ ret = NoRet
    /\ hist = NoHist
    /\ steps = 0

CapsStep(c, r, it) ==
    /\ steps' = steps + 1
    /\ item' = it
    /\ call' = [c EXCEPT !.before = get_user_difficulty(item)]
    /\ ret' = r
    /\ UNCHANGED <<attrs, today, hist>>

\* store_ok = FALSE: a store call raises, the function returns False
LogExerciseFeedbackCall(exercise_id, feedback_level, store_ok) ==
    /\ steps < MaxLogs
    /\ CapsStep([NoCall EXCEPT !.op = "log_exercise_feedback",
                               !.exercise_id = <<exercise_id>>,
                               !.feedback_level = feedback_level,
                               !.store_ok = store_ok],
                [NoRet EXCEPT !.success = store_ok],
                IF store_ok
                THEN log_exercise_feedback(item, exercise_id, feedback_level)
                ELSE item)

AdjustDifficultyLogged(make_easier) ==
    /\ steps < MaxLogs
    /\ LET adjusted == adjust_difficulty(item, make_easier)
       IN  CapsStep([NoCall EXCEPT !.op = "adjust_difficulty",
                                   !.make_easier = make_easier],
                    [NoRet EXCEPT !.value = adjusted.value],
                    adjusted.item)

LogPartialSessionCall(completed, read, write_ok) ==
    /\ steps < MaxLogs
    /\ LET logged == log_partial_session_call(item, completed, RoutineLen,
                                              "physical", today, read, write_ok)
       IN  CapsStep([NoCall EXCEPT !.op = "log_partial_session",
                                   !.index_before = completed,
                                   !.length_before = RoutineLen,
                                   !.exercise_type = "physical",
                                   !.read = read,
                                   !.store_ok = write_ok],
                    [NoRet EXCEPT !.success = logged.value],
                    logged.item)

CompletionLogged ==
    /\ steps < MaxLogs
    /\ CapsStep([NoCall EXCEPT !.op = "log_session_completion",
                               !.exercise_type = "physical"],
                [NoRet EXCEPT !.success = TRUE],
                log_session_completion(item, "physical", today))

NextCaps ==
    \/ \E feedback_level \in {"comfortable", "too-hard"}, store_ok \in BOOLEAN :
          LogExerciseFeedbackCall(<<"speech", "advanced", 1>>, feedback_level, store_ok)
    \/ \E make_easier \in BOOLEAN : AdjustDifficultyLogged(make_easier)
    \/ \E read \in ReadOutcomes, write_ok \in BOOLEAN :
          LogPartialSessionCall(1, read, write_ok)
    \/ CompletionLogged

SpecCaps == InitCaps /\ [][NextCaps]_vars

(***************************************************************************)
(* Properties of the capped lists, checked under SpecCaps.                 *)
(***************************************************************************)
\* the entry the step appended to the list that was old is the last of new;
\* a list that grew kept all its entries, and a list that was and is at the
\* cap lost its oldest entry and no other
KeptMostRecent(old, new, entry, cap) ==
    /\ new # <<>>
    /\ new[Len(new)] = entry
    /\ Len(new) > Len(old) => new = Append(old, entry)
    /\ (Len(old) = cap /\ Len(new) = cap) => new = Append(Tail(old), entry)

\* the entry a logging step wrote
FeedbackEntry ==
    [ exercise_id    |-> call'.exercise_id[1],
      feedback_level |-> call'.feedback_level ]

ChangeEntry ==
    [ old_difficulty |-> call'.before,
      new_difficulty |-> ret'.value,
      user_requested |-> TRUE ]

PartialEntry ==
    [ date          |-> today,
      completed     |-> call'.index_before,
      total         |-> call'.length_before,
      percentage    |-> RoundPercent(call'.index_before, call'.length_before),
      exercise_type |-> call'.exercise_type ]

\* C28: whatever is done, the record holds at most 10 partial-session
\* records, at most 10 difficulty-change events and at most 50 feedback
\* events, and a logging call that finds its list at the cap drops the
\* oldest entry: the stored list is then the most recent entries in order,
\* the new one last.
C28_ListsAreCapped ==
    [][ /\ Len(item'.partial_sessions) <= 10
        /\ Len(item'.difficulty_changes) <= 10
        /\ Len(item'.exercise_feedback) <= 50
        /\ (call'.op = "log_exercise_feedback" /\ ret'.success) =>
              KeptMostRecent(item.exercise_feedback, item'.exercise_feedback,
                             FeedbackEntry, 50)
        /\ (call'.op = "adjust_difficulty" /\ ret'.value # call'.before) =>
              KeptMostRecent(item.difficulty_changes, item'.difficulty_changes,
                             ChangeEntry, 10)
        /\ (call'.op = "log_partial_session" /\ ret'.success) =>
              KeptMostRecent(item.partial_sessions, item'.partial_sessions,
                             PartialEntry, 10)
      ]_vars

\* all three lists are at their caps and each has taken a further entry
C28_Witness ==
    /\ steps = 3
    /\ Len(item.exercise_feedback) = 50
    /\ Len(item.difficulty_changes) = 10
    /\ Len(item.partial_sessions) = 10
    /\ item.exercise_feedback[50].exercise_id = <<"speech", "advanced", 1>>
    /\ item.partial_sessions # UserRecord(0).partial_sessions
    /\ item.difficulty_changes # UserRecord(0).difficulty_changes


(***************************************************************************)
(* Properties of session starts, checked under Spec.                       *)
(***************************************************************************)
\* the last end-of-session evaluation since the last start stepped the level up
SteppedUp == hist.evaluation.congratulate

\* C29: when the end-of-session evaluation steps the level up, the
\* congratulation it flags is delivered at the start of the user's next
\* session: the turn that starts the next session issues the congratulatory
\* message, and the pending_congratulation flag of the session is false
\* afterwards.
C29_CongratulatedAtNextStart ==
    [][ (call'.started /\ SteppedUp) =>
          /\ ret'.congratulated
          /\ attrs'.session_state # <<>>
          /\ ~attrs'.session_state[1].pending_congratulation
      ]_vars


(***************************************************************************)
(* SpecStart: start_session called with any exercise type, for a user with *)
(* any stored level value, over a catalog whose routines hold 0..RoutineLen *)
(* exercises.                                                              *)
(***************************************************************************)
StartTypeArguments == ExerciseTypes \cup {"yoga", ""}

StartSessionCall(exercise_type, n) ==
    /\ steps < MaxOps
    /\ LET started == start_session_with(attrs, item, exercise_type, today,
                                         CatalogOf(n))
       IN  /\ item' = started.item
           /\ attrs' = started.attrs
           /\ ret' = [NoRet EXCEPT !.returns = started.returns,
                                   !.should_end = started.should_end]
    /\ call' = [NoCall EXCEPT !.op = "start_session",
                              !.exercise_type = exercise_type,
                              !.length_before = n,
                              !.before = get_user_difficulty(item)]
    /\ steps' = steps + 1
    /\ UNCHANGED <<today, hist>>

NextStart ==
    \E exercise_type \in StartTypeArguments, n \in 0..RoutineLen :
        StartSessionCall(exercise_type, n)

SpecStart == InitStore /\ [][NextStart]_vars

\* C30: start_session with an exercise type outside physical, speech and
\* cognitive starts a physical session; every started session is at
\* current_index 0, not completed, with empty skips, repeats and feedback,
\* with the user's stored level at the start as its difficulty and the
\* catalog's routine for its type and difficulty as its exercise list; when
\* that list is empty the outcome is the empty-session one that ends the
\* interaction.
C30_StartedSessionIsFresh ==
    call.op = "start_session" =>
        LET session_state == attrs.session_state[1]
            exercise_type == IF call.exercise_type \in {"physical", "speech", "cognitive"}
                             THEN call.exercise_type ELSE "physical"
        IN  /\ session_state.exercise_type = exercise_type
            /\ session_state.current_index = 0
            /\ ~session_state.completed
            /\ session_state.skips = <<>>
            /\ session_state.repeats = <<>>
            /\ session_state.feedback = <<>>
            /\ session_state.difficulty = call.before
            /\ session_state.difficulty = get_user_difficulty(item)
            /\ session_state.exercise_ids =
                  [i \in 1..call.length_before |-> <<exercise_type, call.before, i>>]
            /\ ret.returns = "pair"
            /\ ret.should_end <=> session_state.exercise_ids = <<>>

\* a session asked for with an unknown type, by a user at a higher level
C30_Witness ==
    /\ call.op = "start_session"
    /\ call.exercise_type = "yoga"
    /\ attrs.session_state[1].exercise_type = "physical"
    /\ attrs.session_state[1].difficulty = "advanced"
    /\ Len(attrs.session_state[1].exercise_ids) = RoutineLen
    /\ ~ret.should_end


(***************************************************************************)
(* Properties of the completion counters across voice turns, checked       *)
(* under Spec.                                                             *)
(***************************************************************************)
\* the session under way is at a position before its last exercise
BeforeLastExercise ==
    /\ LiveSession
    /\ attrs.session_state[1].current_index
           < Len(attrs.session_state[1].exercise_ids) - 1

\* the counters of completed sessions of a record
SessionCounters(it) ==
    <<it.sessions_completed, it.physical_sessions, it.speech_sessions,
      it.cognitive_sessions>>

\* C31: a session that is ended early, before its last exercise, by Stop or
\* Cancel or by the end-session intent, increments neither sessions_completed
\* nor a per-type session count.
C31_EarlyEndCountsNothing ==
    [][ (/\ BeforeLastExercise
         /\ call'.op \in {"CancelOrStopIntent", "EndSessionIntent"}) =>
          SessionCounters(item') = SessionCounters(item)
      ]_vars


(***************************************************************************)
(* Properties of feedback given during a session, checked under Spec.      *)
(***************************************************************************)
\* the ratings the user gave: the entries of the feedback list that are not
\* the padding of record_feedback
Ratings(feedback) ==
    LET Rated(entry) == entry # ""
    IN  SelectSeq(feedback, Rated)

\* the turn marks the session under way completed
CompletesSession == LiveSession /\ hist'.marks = hist.marks + 1

\* C32: positions the user did not rate, the empty entries that
\* record_feedback pads into the feedback list, are not counted as feedback
\* entries at completion: a session with at least two ratings, all of them
\* comfortable, and no skips is stepped up (at advanced the level stays).
C32_UnratedPositionsDoNotCount ==
    [][ (/\ CompletesSession
         /\ Len(Ratings(Before.feedback)) >= 2
         /\ \A i \in 1..Len(Before.feedback) :
               Before.feedback[i] \in {"", FEEDBACK_COMFORTABLE}
         /\ Before.skips = <<>>
         /\ call'.op # "SkipExerciseIntent") =>
          IF get_user_difficulty(item) = "advanced"
          THEN ~hist'.evaluation.difficulty_changed
          ELSE /\ hist'.evaluation.difficulty_changed
               /\ hist'.evaluation.congratulate
               /\ hist'.evaluation.new_difficulty = OneHarder(get_user_difficulty(item))
      ]_vars


\* the turn is a feedback turn on the session under way that lowers the
\* user's stored level
FeedbackLowersLevel ==
    /\ LiveSession
    /\ call'.op = "DifficultyFeedbackIntent"
    /\ LevelIndex(get_user_difficulty(item')) < LevelIndex(get_user_difficulty(item))

\* C33: when a too-hard feedback lowers the user's level during a session,
\* the running session switches to the lower level within the same session:
\* after the feedback turn the session's difficulty is the user's stored level
\* and its exercise list is the routine of that level, so the exercise
\* presented next is not of the level flagged as too hard.
C33_SessionFollowsStepDown ==
    [][ FeedbackLowersLevel =>
          /\ attrs'.session_state # <<>>
          /\ After.difficulty = get_user_difficulty(item')
          /\ After.exercise_ids =
                 get_exercise_routine(After.exercise_type, get_user_difficulty(item'))
          /\ \A i \in 1..Len(After.exercise_ids) :
                After.exercise_ids[i][2] # get_user_difficulty(item)
      ]_vars


\* the turn is a too-hard feedback on the session under way
RatesTooHard ==
    /\ LiveSession
    /\ call'.op = "DifficultyFeedbackIntent"
    /\ attrs'.session_state # <<>>
    /\ After.feedback # Before.feedback
    /\ After.feedback[Before.current_index + 1] = FEEDBACK_TOO_HARD

\* C34 (as claimed): a single too-hard feedback lowers the user's level twice
\* over one session: the feedback turn lowers it by one step at once, and the
\* turn that completes the session lowers it by one more, because the
\* too-hard entry is still in the session's feedback and fires the step-down
\* rule of evaluate_session.
C34_AsClaimed ==
    [][ /\ RatesTooHard =>
              LevelIndex(get_user_difficulty(item'))
                  = LevelIndex(get_user_difficulty(item)) - 1
        /\ (CompletesSession /\ InList(FEEDBACK_TOO_HARD, Before.feedback)) =>
              /\ hist'.evaluation.difficulty_changed
              /\ hist'.evaluation.make_easier
              /\ LevelIndex(hist'.evaluation.new_difficulty)
                     = LevelIndex(get_user_difficulty(item)) - 1
      ]_vars

\* C34 (amended): a single too-hard feedback is acted on twice over one
\* session: the feedback turn lowers a level above beginner by one step at
\* once, and the turn that completes the session lowers a level above beginner
\* by one more, because the too-hard entry is still in the session's feedback
\* and fires the step-down rule of evaluate_session; at beginner each of the
\* two leaves the level as it is.  A user at advanced who rates one exercise
\* too-hard and then completes the session ends at beginner.
C34_TooHardCountsTwice ==
    [][ /\ RatesTooHard =>
              get_user_difficulty(item') = OneEasier(get_user_difficulty(item))
        /\ (CompletesSession /\ InList(FEEDBACK_TOO_HARD, Before.feedback)) =>
              /\ IF get_user_difficulty(item) = "beginner"
                 THEN ~hist'.evaluation.difficulty_changed
                 ELSE /\ hist'.evaluation.difficulty_changed
                      /\ hist'.evaluation.make_easier
                      /\ hist'.evaluation.old_difficulty = get_user_difficulty(item)
                      /\ hist'.evaluation.new_difficulty
                             = OneEasier(get_user_difficulty(item))
              /\ get_user_difficulty(item) = "intermediate" =>
                    get_user_difficulty(item') = "beginner"
      ]_vars

\* a user at advanced rated one exercise too-hard and stopped the session:
\* the record shows the step to intermediate and the step to beginner
C34_Witness ==
    /\ call.op = "CancelOrStopIntent"
    /\ hist.marks = 1
    /\ Len(item.exercise_feedback) = 1
    /\ item.exercise_feedback[1].feedback_level = FEEDBACK_TOO_HARD
    /\ Len(item.difficulty_changes) = 4
    /\ item.difficulty_changes[3] = [ old_difficulty |-> "advanced",
                                      new_difficulty |-> "intermediate",
                                      user_requested |-> FALSE ]
    /\ item.difficulty_changes[4] = [ old_difficulty |-> "intermediate",
                                      new_difficulty |-> "beginner",
                                      user_requested |-> FALSE ]
    /\ item.difficulty_level = "beginner"


(***************************************************************************)
(* difficulty_engine.py with store calls that may raise.  Every function   *)
(* of the engine wraps its store calls in try / except and goes on; store  *)
(* says which calls succeed while one operation runs:                      *)
(*   level_read      get_item of get_user_difficulty                       *)
(*   level_write     update_item of set_user_difficulty                    *)
(*   log_write       get_item / update_item of log_difficulty_change       *)
(*   feedback_write  get_item / update_item of log_exercise_feedback       *)
(***************************************************************************)
StoreOutcomes ==
    [ level_read : BOOLEAN, level_write : BOOLEAN,
      log_write : BOOLEAN, feedback_write : BOOLEAN ]

\* every store call succeeds
StoreUp ==
    [ level_read |-> TRUE, level_write |-> TRUE,
      log_write |-> TRUE, feedback_write |-> TRUE ]

\* what get_user_difficulty returns under the store outcomes
LevelRead(it, store) ==
    get_user_difficulty_call(IF store.level_read THEN <<it>> ELSE <<>>)

\* the record after log_difficulty_change; a store call that raises leaves it
log_difficulty_change_call(it, old_difficulty, new_difficulty, user_requested, store) ==
    IF store.log_write
    THEN log_difficulty_change(it, old_difficulty, new_difficulty, user_requested)
    ELSE it

\* [item |-> record afterwards, value |-> bool returned]
log_exercise_feedback_call(it, exercise_id, feedback_level, store) ==
    IF store.feedback_write
    THEN [item |-> log_exercise_feedback(it, exercise_id, feedback_level), value |-> TRUE]
    ELSE [item |-> it, value |-> FALSE]

\* the record after set_user_difficulty followed by log_difficulty_change,
\* whose return values their callers do not read
ChangeLevel(it, current_difficulty, new_difficulty, user_requested, store) ==
    log_difficulty_change_call(
        set_user_difficulty_call(it, new_difficulty, store.level_write).item,
        current_difficulty, new_difficulty, user_requested, store)

\* [item |-> record afterwards, value |-> returned level]
adjust_difficulty_call(it, make_easier, store) ==
    LET current_difficulty == LevelRead(it, store)
        current_index == LevelIndex(current_difficulty)
        new_index == IF make_easier
                     THEN Max(0, current_index - 1)
                     ELSE Min(Len(DIFFICULTY_LEVELS) - 1, current_index + 1)
        new_difficulty == LevelAt(new_index)
    IN  [ item  |-> IF new_difficulty # current_difficulty
                    THEN ChangeLevel(it, current_difficulty, new_difficulty, TRUE, store)
                    ELSE it,
          value |-> new_difficulty ]

\* [item |-> record afterwards, result |-> returned dict]
process_difficulty_feedback_call(it, feedback_level, exercise_id, store) ==
    LET logged == log_exercise_feedback_call(it, exercise_id, feedback_level, store)
        current_difficulty == LevelRead(logged.item, store)
        current_index == LevelIndex(current_difficulty)
    IN  IF feedback_level = FEEDBACK_TOO_HARD /\ current_index > 0
        THEN LET new_difficulty == LevelAt(current_index - 1)
             IN  [ item   |-> ChangeLevel(logged.item, current_difficulty,
                                          new_difficulty, FALSE, store),
                   result |-> [NoResult EXCEPT
                                 !.difficulty_changed = TRUE,
                                 !.make_easier = TRUE,
                                 !.old_difficulty = current_difficulty,
                                 !.new_difficulty = new_difficulty,
                                 !.immediate_action = TRUE] ]
        ELSE [ item   |-> logged.item,
               result |-> [NoResult EXCEPT !.feedback_logged = logged.value] ]

\* session_stats is <<dict>>, or <<>> for a summary that is no dict: reading
\* it raises and the except branch returns the error outcome.
\* [item |-> record afterwards, result |-> returned dict]
evaluate_session_call(it, session_stats, store) ==
    IF session_stats = <<>>
    THEN [item |-> it, result |-> [NoResult EXCEPT !.error = TRUE]]
    ELSE
    LET feedback == session_stats[1].feedback
        skips == session_stats[1].skips
        total_feedback == Len(feedback)
        comfortable_count == CountEq(feedback, FEEDBACK_COMFORTABLE)
        too_hard_count == CountEq(feedback, FEEDBACK_TOO_HARD)
        max_consecutive_skips == SkipLoop(skips, 0, 0)
        rule == RuleThatFires(too_hard_count, max_consecutive_skips,
                              comfortable_count, total_feedback)
        current_difficulty == LevelRead(it, store)
        current_index == LevelIndex(current_difficulty)
        no_change == [ item   |-> it,
                       result |-> [NoResult EXCEPT
                                     !.current_difficulty = current_difficulty] ]
    IN  IF rule = "step_down"
        THEN IF current_index > 0
             THEN LET new_difficulty == LevelAt(current_index - 1)
                  IN  [ item   |-> ChangeLevel(it, current_difficulty,
                                               new_difficulty, FALSE, store),
                        result |-> [NoResult EXCEPT
                                      !.difficulty_changed = TRUE,
                                      !.make_easier = TRUE,
                                      !.old_difficulty = current_difficulty,
                                      !.new_difficulty = new_difficulty,
                                      !.congratulate = FALSE] ]
             ELSE no_change
        ELSE IF rule = "step_up"
        THEN IF current_index < Len(DIFFICULTY_LEVELS) - 1
             THEN LET new_difficulty == LevelAt(current_index + 1)
                  IN  [ item   |-> ChangeLevel(it, current_difficulty,
                                               new_difficulty, FALSE, store),
                        result |-> [NoResult EXCEPT
                                      !.difficulty_changed = TRUE,
                                      !.make_easier = FALSE,
                                      !.old_difficulty = current_difficulty,
                                      !.new_difficulty = new_difficulty,
                                      !.congratulate = TRUE] ]
             ELSE no_change
        ELSE no_change

(***************************************************************************)
(* SpecOutage: the engine functions called one after the other, for a user *)
(* at any level, while store calls succeed or raise; after any of them     *)
(* get_user_difficulty may be called.                                      *)
(***************************************************************************)
\* summaries passed to evaluate_session: well-formed ones and one that is no
\* dict
OutageSummaries ==
    { <<[ feedback |-> feedback, skips |-> <<>>,
          repeats |-> <<>>, completion_times |-> <<>> ]>> :
          feedback \in { <<>>, <<"too-hard">>, <<"comfortable", "comfortable">> } }
    \cup { <<>> }

InitOutage ==
    /\ \E k \in 0..(Len(DIFFICULTY_LEVELS) - 1) : item = ItemAtLevel(k)
    /\ attrs = NewAttrs
    /\ today = 0
    /\ call = NoCall
    /\ ret = NoRet
    /\ hist = NoHist
    /\ steps = 0

\* the call as it is recorded: the operation and the store outcomes it met
OutageCall(op, store) ==
    [NoCall EXCEPT !.op = op,
                   !.read = IF store.level_read THEN "ok" ELSE "error",
                   !.store_ok = store.level_write]

AdjustDifficultyOutage(make_easier, store) ==
    /\ steps < MaxCalls
    /\ LET adjusted == adjust_difficulty_call(item, make_easier, store)
       IN  EngineStep([OutageCall("adjust_difficulty", store) EXCEPT
                         !.make_easier = make_easier],
                      [NoRet EXCEPT !.value = adjusted.value],
                      adjusted.item)

ProcessDifficultyFeedbackOutage(feedback_level, exercise_id, store) ==
    /\ steps < MaxCalls
    /\ LET processed == process_difficulty_feedback_call(item, feedback_level,
                                                         exercise_id, store)
       IN  EngineStep([OutageCall("process_difficulty_feedback", store) EXCEPT
                         !.feedback_level = feedback_level,
                         !.exercise_id = exercise_id],
                      [NoRet EXCEPT !.result = processed.result],
                      processed.item)

EvaluateSessionOutage(session_stats, store) ==
    /\ steps < MaxCalls
    /\ LET evaluated == evaluate_session_call(item, session_stats, store)
       IN  EngineStep([OutageCall("evaluate_session", store) EXCEPT
                         !.feedback = IF session_stats = <<>> THEN <<>>
                                      ELSE session_stats[1].feedback,
                         !.skips = IF session_stats = <<>> THEN <<>>
                                   ELSE session_stats[1].skips],
                      [NoRet EXCEPT !.result = evaluated.result],
                      evaluated.item)

\* get_user_difficulty called after the operations so far
GetUserDifficultyAfter(read_ok) ==
    /\ steps < MaxCalls
    /\ EngineStep([NoCall EXCEPT !.op = "get_user_difficulty",
                                 !.store_ok = read_ok],
                  [NoRet EXCEPT !.value =
                      get_user_difficulty_call(IF read_ok THEN <<item>> ELSE <<>>)],
                  item)

NextOutage ==
    \/ \E make_easier \in BOOLEAN, store \in StoreOutcomes :
          AdjustDifficultyOutage(make_easier, store)
    \/ \E feedback_level \in {FEEDBACK_COMFORTABLE, FEEDBACK_TOO_HARD},
          store \in StoreOutcomes :
          ProcessDifficultyFeedbackOutage(feedback_level,
                                          <<"physical", "beginner", 1>>, store)
    \/ \E session_stats \in OutageSummaries, store \in StoreOutcomes :
          EvaluateSessionOutage(session_stats, store)
    \/ \E read_ok \in BOOLEAN : GetUserDifficultyAfter(read_ok)

SpecOutage == InitOutage /\ [][NextOutage]_vars


(***************************************************************************)
(* Properties of the reported level changes, checked under SpecOutage.     *)
(***************************************************************************)
\* an evaluate_session call happens in this step
EvaluatesSession == call'.op = "evaluate_session" /\ steps' = steps + 1

\* C35: evaluate_session returns congratulate = true if and only if it
\* actually raised the stored level: at advanced a fully comfortable session
\* yields difficulty_changed = false and congratulate = false, and every
\* step-down, no-change or error outcome has congratulate = false.
C35_CongratulatesOnlyARaise ==
    [][ EvaluatesSession =>
          /\ ret'.result.congratulate <=>
                LevelIndex(get_user_difficulty(item'))
                    > LevelIndex(get_user_difficulty(item))
          /\ get_user_difficulty(item) = "advanced" =>
                /\ ~ret'.result.congratulate
                /\ LevelIndex(get_user_difficulty(item')) = 2 =>
                      ~ret'.result.difficulty_changed
          /\ (\/ ~ret'.result.difficulty_changed
              \/ ret'.result.make_easier
              \/ ret'.result.error) => ~ret'.result.congratulate
      ]_vars

\* the level the last operation reported as the user's new level, if any
ReportedLevel ==
    IF call.op = "adjust_difficulty" THEN <<ret.value>>
    ELSE IF /\ call.op \in {"process_difficulty_feedback", "evaluate_session"}
            /\ ret.result.difficulty_changed
         THEN <<ret.result.new_difficulty>>
         ELSE <<>>

\* C36: whenever adjust_difficulty, process_difficulty_feedback or
\* evaluate_session reports a new level, a following get_user_difficulty
\* returns that level, also when the store write of the new level failed; a
\* failed write is never reported as a change.
C36_ReportedLevelIsStored ==
    [][ /\ (/\ ReportedLevel # <<>>
            /\ call'.op = "get_user_difficulty"
            /\ call'.store_ok) => ret'.value = ReportedLevel[1]
        /\ (/\ call'.op \in {"adjust_difficulty", "process_difficulty_feedback",
                             "evaluate_session"}
            /\ steps' = steps + 1
            /\ ~call'.store_ok) =>
              /\ ~ret'.result.difficulty_changed
              /\ call'.op = "adjust_difficulty" =>
                    ret'.value = get_user_difficulty(item)
      ]_vars


(***************************************************************************)
(* Properties of the turns that end a session, checked under Spec.         *)
(***************************************************************************)
\* C37: each session increments the user's sessions_completed at most once,
\* whatever turns follow its completion: no turn counts twice, and a further
\* next, an end-session intent or a stop on a session that has been
\* completed does not count it again.
C37_CountedOnce ==
    [][ /\ item'.sessions_completed <= item.sessions_completed + 1
        /\ (/\ CompletedSession
            /\ call'.op \in {"NextExerciseIntent", "EndSessionIntent",
                             "CancelOrStopIntent"}) =>
              item'.sessions_completed = item.sessions_completed
      ]_vars


\* the summary mark_completed passes to evaluate_session for the session
\* under way
SummaryOf(state_dict) ==
    [ feedback         |-> state_dict.feedback,
      skips            |-> state_dict.skips,
      repeats          |-> state_dict.repeats,
      completion_times |-> state_dict.completion_times ]

\* the turn runs end_session on a session under way
EndsEarly ==
    /\ LiveSession
    /\ \/ call'.op \in {"CancelOrStopIntent", "EndSessionIntent"}
       \/ call'.op = "StartSessionIntent" /\ ret'.should_end

\* C38: ending a session under way through end_session marks it completed
\* and so runs the end-of-session evaluation on the partial session: the
\* level is stepped down or up as that evaluation decides, for a session that
\* was not finished; and one partial-session record is logged with completed
\* = current_index + 1 and total = the number of exercises.  (The record is
\* compared after a Stop or Cancel before the last exercise, the turns in
\* which end_session is the only function that writes to it.)
C38_EarlyEndEvaluates ==
    [][ EndsEarly =>
          LET evaluated == evaluate_session(item, SummaryOf(Before))
          IN  /\ hist'.marks = hist.marks + 1
              /\ hist'.evaluation = evaluated.result
              /\ (BeforeLastExercise /\ call'.op = "CancelOrStopIntent") =>
                    /\ get_user_difficulty(item') = get_user_difficulty(evaluated.item)
                    /\ item'.difficulty_changes = evaluated.item.difficulty_changes
                    /\ item'.session_progress = <<>>
                    /\ item'.partial_sessions =
                          LastN(Append(item.partial_sessions,
                                       [ date          |-> today,
                                         completed     |-> Before.current_index + 1,
                                         total         |-> Len(Before.exercise_ids),
                                         percentage    |->
                                             RoundPercent(Before.current_index + 1,
                                                          Len(Before.exercise_ids)),
                                         exercise_type |-> Before.exercise_type ]),
                                MaxPartialSessions)
                    /\ SessionCounters(item') = SessionCounters(item)
      ]_vars

\* a beginner rated the first two of three exercises comfortable and stopped
\* at the second: the unfinished session raised the level, and it is logged
\* as 2 of 3
C38_Witness ==
    /\ call.op = "CancelOrStopIntent"
    /\ hist.marks = 1
    /\ hist.evaluation.congratulate
    /\ item.difficulty_level = "intermediate"
    /\ item.sessions_completed = 0
    /\ Len(item.partial_sessions) = 1
    /\ item.partial_sessions[1].completed = 2
    /\ item.partial_sessions[1].total = RoutineLen


(***************************************************************************)
(* SpecOffer: the resume offer over several voice sessions and days.  A    *)
(* new user starts sessions, goes through them, leaves them unfinished     *)
(* (the voice session closes) or finishes them, comes back on the same or  *)
(* a later day, and accepts or declines what LaunchRequestHandler offers.  *)
(***************************************************************************)
\* one or more midnights pass between two requests
OfferDaysPass ==
    /\ today < LastDay
    /\ \E later \in (today + 1)..LastDay : today' = later
    /\ call' = NoCall
    /\ ret' = NoRet
    /\ UNCHANGED <<item, attrs, hist, steps>>

NextOffer ==
    \/ LaunchRequest
    \/ YesIntent
    \/ NoIntent
    \/ SessionEndedRequest
    \/ StartSessionIntent("physical")
    \/ NextExerciseIntent
    \/ CancelOrStopIntent
    \/ OfferDaysPass

SpecOffer == Init /\ [][NextOffer]_vars

\* the record holds a saved copy of a session under way that has not expired
\* on day now
Offerable(it, now) ==
    /\ it.session_progress # <<>>
    /\ now - it.session_progress[1].last_updated < ResumeWindowDays
    /\ it.session_progress[1].inProgress

\* C39: a launch offers to resume exactly when the record holds a saved copy
\* with inProgress = true that has not expired; declining the offer removes
\* the saved copy and clears offering_resume, and the dialogue goes on; a
\* record without such a copy gets one only from a turn that works on a
\* session not yet completed, so no later launch offers a resume before a
\* session is left unfinished again; accepting the offer clears the flag and
\* runs resume_session, which rebuilds the session at the saved position.
C39_ResumeOffer ==
    [][ /\ call'.op = "LaunchRequest" =>
              (attrs'.offering_resume <=> Offerable(item, today))
        /\ (call'.op = "NoIntent" /\ attrs.offering_resume) =>
              /\ item'.session_progress = <<>>
              /\ ~attrs'.offering_resume
              /\ ~ret'.should_end
        /\ (~Offerable(item, today) /\ Offerable(item', today')) =>
              \/ LiveSession'
              \/ call'.op = "SessionEndedRequest" /\ LiveSession
        /\ (call'.op = "YesIntent" /\ attrs.offering_resume) =>
              /\ ~attrs'.offering_resume
              /\ ~ret'.should_end
              /\ IF Offerable(item, today)
                 THEN /\ LiveSession'
                      /\ attrs'.session_state[1].current_index =
                             item.session_progress[1].currentIndex
                      /\ attrs'.session_state[1].exercise_type =
                             item.session_progress[1].exerciseType
                 ELSE attrs'.session_state = attrs.session_state
      ]_vars

\* on a later day the user declined the offer to resume a session left
\* unfinished: the saved copy and the flag are gone, the dialogue is open
C39_Witness ==
    /\ call.op = "NoIntent"
    /\ ~ret.should_end
    /\ today > 0
    /\ Len(item.partial_sessions) = 1
    /\ item.session_progress = <<>>
    /\ ~attrs.offering_resume
    /\ attrs.session_state = <<>>


(***************************************************************************)
(* SpecLive: one session of 1..RoutineLen + 1 exercises from its start to  *)
(* its completion.  The user says next or skip as long as the session is   *)
(* under way, and in between repeats and rates exercises; at most          *)
(* MaxAsides repeat and feedback turns are taken, next and skip turns are  *)
(* always open.  SpecLiveFair adds the user who keeps saying next or      *)
(* skip.                                                                   *)
(***************************************************************************)
InitLive ==
    /\ \E k \in 0..(Len(DIFFICULTY_LEVELS) - 1) : item = ItemAtLevel(k)
    /\ \E n \in 1..(RoutineLen + 1) :
          attrs = [NewAttrs EXCEPT
                     !.session_state = <<to_dict(FreshSession(item, "physical", n))>>]
    /\ today = 0
    /\ call = [NoCall EXCEPT !.op = "__init__"]
    /\ ret = NoRet
    /\ hist = NoHist
    /\ steps = 0

\* turns taken so far that were neither next nor skip: every next or skip of
\* a session under way has raised current_index by one
Asides == steps - attrs.session_state[1].current_index

\* the branch "We're at the end of the session" of next_exercise and
\* skip_exercise as the step of a turn: mark_completed, save_session_state,
\* log_session_completion and update_session_completion_attributes, each
\* value computed once and bound before it is used
CompletingTurn(op, s, returns, should_end) ==
    \E marked \in {mark_completed(s, item)} :
    \E saved \in {save_session_state(attrs, marked.item, marked.s, today)} :
    \E logged \in {log_session_completion(saved.item, marked.s.exercise_type,
                                          today)} :
       Turn(op,
            Outcome(update_session_completion_attributes(saved.attrs,
                                                         marked.s.exercise_type),
                    logged, returns, should_end, 1, marked.evaluation),
            FALSE)

\* NextExerciseIntentHandler: next_exercise
NextTurn ==
    /\ LiveSession
    /\ \E session_state \in {get_session_state(attrs, item)[1]} :
       \E advanced \in {advance([session_state EXCEPT
                                   !.pending_congratulation = FALSE])} :
          IF advanced.value
          THEN \E saved \in {save_session_state(attrs, item, advanced.s, today)} :
                  TurnSaying("NextExerciseIntent",
                             Outcome(saved.attrs, saved.item, "pair", FALSE, 0,
                                     NoResult),
                             FALSE, session_state.pending_congratulation)
          ELSE CompletingTurn("NextExerciseIntent", advanced.s, "none", FALSE)

\* SkipExerciseIntentHandler: skip_exercise
SkipTurn ==
    /\ LiveSession
    /\ \E session_state \in {get_session_state(attrs, item)[1]} :
       \E skipped \in {skip(session_state)} :
          IF get_current_exercise(session_state) = <<>>
          THEN Turn("SkipExerciseIntent",
                    Outcome(attrs, item, "pair", TRUE, 0, NoResult), FALSE)
          ELSE IF skipped.value
          THEN \E saved \in {save_session_state(attrs, item, skipped.s, today)} :
                  Turn("SkipExerciseIntent",
                       Outcome(saved.attrs, saved.item, "pair", FALSE, 0, NoResult),
                       FALSE)
          ELSE CompletingTurn("SkipExerciseIntent", skipped.s, "pair", TRUE)

\* RepeatExerciseIntentHandler: repeat_exercise
RepeatTurn ==
    /\ LiveSession
    /\ Asides < MaxAsides
    /\ \E o \in {repeat_exercise(attrs, item, today)} :
          Turn("RepeatExerciseIntent", o, FALSE)

\* DifficultyFeedbackIntentHandler
FeedbackTurn(slot_value) ==
    /\ LiveSession
    /\ Asides < MaxAsides
    /\ \E session_state \in {get_session_state(attrs, item)[1]} :
       \E recorded \in {record_feedback(session_state, item,
                                        NormalizeFeedback(slot_value))} :
       \E saved \in {save_session_state(attrs, recorded.item, recorded.s, today)} :
          Turn("DifficultyFeedbackIntent",
               Outcome(saved.attrs, saved.item, "pair", FALSE, 0, NoResult), FALSE)

NextLive ==
    \/ NextTurn
    \/ SkipTurn
    \/ RepeatTurn
    \/ \E slot_value \in FeedbackSlotValues : FeedbackTurn(slot_value)

SpecLive == InitLive /\ [][NextLive]_vars

\* the user keeps saying next or skip: a session under way is not left
\* waiting for ever
SpecLiveFair == SpecLive /\ WF_vars(NextTurn \/ SkipTurn)

\* mark_completed has run on the session
SessionDone == hist.marks > 0

\* C40: every session with at least one exercise is completed in the end
\* when the user keeps saying next or skip: a repeat or feedback turn never
\* lowers current_index and leaves the session under way, a next or skip
\* before the last exercise raises current_index by one, the first next or
\* skip at the last exercise marks the session completed, and so a session
\* under way leads to a completed one.
C40_EventuallyCompletes ==
    /\ [][ LiveSession =>
             /\ call'.op \in {"RepeatExerciseIntent", "DifficultyFeedbackIntent"} =>
                   /\ LiveSession'
                   /\ attrs'.session_state[1].current_index >= Before.current_index
             /\ (/\ call'.op \in {"NextExerciseIntent", "SkipExerciseIntent"}
                 /\ BeforeLastExercise) =>
                   /\ LiveSession'
                   /\ attrs'.session_state[1].current_index = Before.current_index + 1
             /\ (/\ call'.op \in {"NextExerciseIntent", "SkipExerciseIntent"}
                 /\ ~BeforeLastExercise) =>
                   /\ ~LiveSession'
                   /\ hist'.marks = 1
         ]_vars
    /\ LiveSession ~> SessionDone

\* a session of RoutineLen + 1 exercises was completed by a next at its last
\* exercise after the user had skipped, repeated and rated exercises
C40_Witness ==
    /\ call.op = "NextExerciseIntent"
    /\ CompletedSession
    /\ SessionDone
    /\ Len(attrs.session_state[1].exercise_ids) = RoutineLen + 1
    /\ attrs.session_state[1].skips # <<>>
    /\ attrs.session_state[1].repeats # <<>>
    /\ attrs.session_state[1].feedback # <<>>

=============================================================================
